---- MODULE Spec2Model ----
(***************************************************************************)
(* Model of the Microwalk Pin tracer: the per-thread trace buffer, the     *)
(* TraceWriter (prefix / testcase / idle file handling) and the runtime    *)
(* hooks that PinTracer.cpp attaches to instructions and routines.         *)
(*                                                                         *)
(* Pointers are modelled as integer addresses.  The TraceWriter object of  *)
(* thread 0 lives at WriterAddr, its _entries array starts EntriesOffset   *)
(* bytes into the object, and one TraceEntry occupies SizeofTraceEntry     *)
(* bytes, so that the byte counts handed to ofstream::write are computed   *)
(* from pointer differences exactly as the code computes them.             *)
(***************************************************************************)
EXTENDS Integers, Sequences, FiniteSets, TLC

----------------------------------------------------------------------------
(* Bounds of the model *)

\* Number of TraceEntry slots in the buffer (16384 in the program, scaled down).
ENTRY_BUFFER_SIZE == 2

\* Entries the hooks may append, and testcase marker calls, in one run of the
\* single-threaded writer workload (SpecWriter).
MaxAppends == ENTRY_BUFFER_SIZE + 1
MaxMarkers == 4

\* The same for the workload with all hooks and all threads (Spec).
MaxAppendsAll == 2
MaxMarkersAll == 2

\* Instructions the target executes and images the loader reports in the
\* workloads that execute instructions (SpecCpu, SpecPlanner).
MaxInstructions == 2
MaxImageLoads == 3

\* Routine entries, tail jumps and returns of the target in SpecAlloc, and
\* the depth of its routine frames.
MaxCallEvents == 4
MaxCallDepth == 2

\* Blocks InstrumentTrace looks up in a registry (SpecLookup).
MaxLookups == 1

\* Testcase commands the driver sends to the harness before the end command.
MaxCommands == 3

\* The attempts to open the pipe that fail before the pipe is there.
MaxPipeFailures == 8

\* Address of the heap-allocated TraceWriter of thread 0.
WriterAddr == 1000

\* Offset of the _entries member inside a TraceWriter object.
EntriesOffset == 8

----------------------------------------------------------------------------
(* Program constants *)

NULL == 0

\* sizeof(TraceEntry) without #pragma pack(push, 1).
SizeofTraceEntry_Unpacked == 32

\* sizeof(TraceEntry): 4 + 1 + 1 + 2 + 8 + 8, enforced by the static_assert.
SizeofTraceEntry == 24

\* TraceEntryTypes
MemoryRead == 1
MemoryWrite == 2
HeapAllocSizeParameter == 3
HeapAllocAddressReturn == 4
HeapFreeAddressParameter == 5
Branch == 6
StackPointerInfo == 7
StackPointerModification == 8

\* TraceEntryFlags
BranchNotTaken == 0
BranchTaken == 1
BranchTypeJump == 2
BranchTypeCall == 4
BranchTypeReturn == 6
StackIsCall == 1
StackIsReturn == 2
StackIsOther == 3

----------------------------------------------------------------------------
(* Input domains of the hooks *)

Threads == {0, 1}

\* Testcase ids the harness passes to PinNotifyTestcaseStart.
TestcaseIds == {-1, 1, 2}

\* IARG_INST_PTR values.
InsAddrs == {16}
\* IARG_BRANCH_TARGET_ADDR / return addresses.
TargetAddrs == {32}
\* IARG_MEMORYREAD_EA / IARG_MEMORYWRITE_EA values.
MemAddrs == {48}
\* IARG_MEMORYREAD_SIZE / IARG_MEMORYWRITE_SIZE values.
AccessSizes == {4}
\* IARG_BRANCH_TAKEN values.
TakenVals == {0, 1}
\* Stack pointer register values.
StackPtrs == {64}
\* Stack bounds reported by the harness.
StackMins == {96}
StackMaxs == {112}
\* Allocation sizes and heap addresses.
AllocSizes == {8}
HeapAddrs == {80}
\* IARG_MEMORYREAD2_EA values.
MemAddrs2 == {56}
\* The count and size arguments of calloc, as UINT64 (eight bytes, least
\* significant first): (2^63 + 129) * 2 = 2^64 + 258, which carries from
\* byte to byte and overflows 64 bits.
CallocArguments ==
    {<<<<129, 0, 0, 0, 0, 0, 0, 128>>, <<2, 0, 0, 0, 0, 0, 0, 0>>>>}

----------------------------------------------------------------------------
(* Integer helpers *)

RECURSIVE BitOr(_, _)
\* Bitwise OR of two naturals.
BitOr(a, b) ==
    IF a = 0 THEN b
    ELSE IF b = 0 THEN a
    ELSE (IF (a % 2 = 1) \/ (b % 2 = 1) THEN 1 ELSE 0) + 2 * BitOr(a \div 2, b \div 2)

ToUINT8(x) == x % 256
ToUINT16(x) == x % 65536

----------------------------------------------------------------------------
(* Machine words.  A UINT32 is kept as two 16-bit halves and a UINT64 as     *)
(* four 16-bit limbs (most significant first), so that every value keeps its *)
(* width.                                                                    *)

U32(hi, lo) == [hi |-> hi, lo |-> lo]

\* a >= b on UINT32
GeqU32(a, b) == a.hi > b.hi \/ (a.hi = b.hi /\ a.lo >= b.lo)

\* A small unsigned int as a UINT32.
ToU32(n) == U32((n \div 65536) % 65536, n % 65536)

RECURSIVE Pow2(_)
Pow2(n) == IF n = 0 THEN 1 ELSE 2 * Pow2(n - 1)

\* x << n and x >> n on unsigned int values that stay below 2^31.
ShiftLeft(x, n) == x * Pow2(n)
ShiftRight(x, n) == x \div Pow2(n)

\* A UINT64 as its eight bytes, least significant first.
ToUINT64(n) == [i \in 1..8 |-> IF i <= 4 THEN (n \div Pow2(8 * (i - 1))) % 256 ELSE 0]

\* The value of a UINT64 that is below 2^31, as an integer of the model.
FromUINT64(w) == w[1] + 256 * w[2] + 65536 * w[3] + 16777216 * w[4]

RECURSIVE ColumnSum(_, _, _, _)
\* The sum of the byte products a[i] * b[j] with i + j = k + 1, from i on.
ColumnSum(a, b, k, i) ==
    IF i > k THEN 0 ELSE a[i] * b[k + 1 - i] + ColumnSum(a, b, k, i + 1)

RECURSIVE Carries(_, _, _, _)
\* The bytes of the columns from k on with the carry that comes in, and the
\* carry out of the last byte behind them.
Carries(a, b, k, carry) ==
    IF k > 8
    THEN <<carry>>
    ELSE LET t == ColumnSum(a, b, k, 1) + carry IN
         <<t % 256>> \o Carries(a, b, k + 1, t \div 256)

RECURSIVE BitAnd(_, _)
\* Bitwise AND of two naturals.
BitAnd(a, b) ==
    IF a = 0 \/ b = 0 THEN 0
    ELSE (IF (a % 2 = 1) /\ (b % 2 = 1) THEN 1 ELSE 0) + 2 * BitAnd(a \div 2, b \div 2)

RECURSIVE AddFrom(_, _, _, _)
\* The bytes of a + b from the k-th on, with the carry that comes in.
AddFrom(a, b, k, carry) ==
    IF k > 8
    THEN << >>
    ELSE LET t == a[k] + b[k] + carry IN
         <<t % 256>> \o AddFrom(a, b, k + 1, t \div 256)

\* a + b, ~a, a - b and a & b on UINT64.
Add64(a, b) == AddFrom(a, b, 1, 0)
Not64(a) == [i \in 1..8 |-> 255 - a[i]]
Sub64(a, b) == AddFrom(a, Not64(b), 1, 1)
And64(a, b) == [i \in 1..8 |-> BitAnd(a[i], b[i])]

\* a * b with the carry out of bit 63 added back in (arithmetic mod 2^64 - 1).
Mul64_EndAroundCarry(a, b) ==
    LET c == Carries(a, b, 1, 0) IN
        [i \in 1..8 |-> IF i = 1 /\ c[9] > 0 THEN (c[1] + 1) % 256 ELSE c[i]]

\* a * b on UINT64: the low 64 bits of the product.
Mul64(a, b) == SubSeq(Carries(a, b, 1, 0), 1, 8)

----------------------------------------------------------------------------
(* CPU profiles (CpuFeatureDefinitions.h); the FEAT(...) masks are evaluated. *)

model_Pentium3 ==
    [max_input |-> U32(0, 3),
     max_ext_input |-> U32(0, 0),
     encoded_family |-> U32(0, 1650),
     features_edx |-> U32(899, 63999),
     features_ecx |-> U32(0, 0),
     features_ext_edx |-> U32(0, 0),
     features_ext_ecx |-> U32(0, 0),
     features_sext_ebx |-> U32(0, 0)]

model_Merom ==
    [max_input |-> U32(0, 10),
     max_ext_input |-> U32(32768, 8),
     encoded_family |-> U32(0, 1787),
     features_edx |-> U32(45035, 64511),
     features_ecx |-> U32(0, 59389),
     features_ext_edx |-> U32(8208, 0),
     features_ext_ecx |-> U32(0, 1),
     features_sext_ebx |-> U32(0, 0)]

model_Westmere ==
    [max_input |-> U32(0, 10),
     max_ext_input |-> U32(32768, 8),
     encoded_family |-> U32(2, 1730),
     features_edx |-> U32(49131, 64511),
     features_ecx |-> U32(666, 59391),
     features_ext_edx |-> U32(11280, 0),
     features_ext_ecx |-> U32(0, 1),
     features_sext_ebx |-> U32(0, 0)]

model_Ivybridge ==
    [max_input |-> U32(0, 11),
     max_ext_input |-> U32(32768, 8),
     encoded_family |-> U32(3, 1705),
     features_edx |-> U32(49131, 64511),
     features_ecx |-> U32(32442, 59391),
     features_ext_edx |-> U32(10256, 0),
     features_ext_ecx |-> U32(0, 1),
     features_sext_ebx |-> U32(0, 513)]

\* The value of the pointer _emulatedCpuModelInfo, by the name of its target.
CpuModel(name) ==
    CASE name = "model_Pentium3" -> model_Pentium3
      [] name = "model_Merom" -> model_Merom
      [] name = "model_Westmere" -> model_Westmere
      [] name = "model_Ivybridge" -> model_Ivybridge

\* cpuid_encode_family(family, model, stepping): ok says that no ASSERT fails,
\* value is the returned dword.
cpuid_encode_family(family, model, stepping) ==
    LET split == family = 6 \/ family = 15
        ext_model == IF split THEN ShiftRight(model, 4) ELSE 0
        model2 == IF split THEN model % 16 ELSE model
        ext_family == IF family >= 15 THEN family - 15 ELSE 0
        family2 == IF family >= 15 THEN 15 ELSE family
    IN  [ok |-> /\ ShiftRight(stepping, 4) = 0
                /\ ShiftRight(model2, 4) = 0
                /\ ShiftRight(family2, 4) = 0
                /\ ShiftRight(ext_model, 4) = 0,
         value |-> BitOr(BitOr(BitOr(BitOr(ShiftLeft(ext_family, 20), ShiftLeft(ext_model, 16)),
                                     ShiftLeft(family2, 8)),
                               ShiftLeft(model2, 4)),
                         stepping)]

\* SetEmulatedCpu(id), started from _emulateCpuModel = true and
\* _emulatedCpuModelInfo = nullptr.
SetEmulatedCpu(id) ==
    CASE id = 1 -> [emulateCpuModel |-> TRUE, emulatedCpuModelInfo |-> "model_Pentium3"]
      [] id = 2 -> [emulateCpuModel |-> TRUE, emulatedCpuModelInfo |-> "model_Merom"]
      [] id = 3 -> [emulateCpuModel |-> TRUE, emulatedCpuModelInfo |-> "model_Westmere"]
      [] id = 4 -> [emulateCpuModel |-> TRUE, emulatedCpuModelInfo |-> "model_Ivybridge"]
      [] OTHER -> [emulateCpuModel |-> FALSE, emulatedCpuModelInfo |-> "nullptr"]

\* ChangeCpuId that takes the leaf from the EAX the instruction has written.
ChangeCpuId_OutputAsLeaf(emulate, info, inputEax, inputEcx, out) ==
    LET m == CpuModel(info) IN
    IF ~emulate THEN out
    ELSE IF out.EAX = U32(0, 0)
    THEN [out EXCEPT !.EAX = m.max_input,
                     !.EBX = U32(30062, 25927),
                     !.EDX = U32(18789, 28265),
                     !.ECX = U32(27749, 29806)]
    ELSE IF out.EAX = U32(0, 1)
    THEN [out EXCEPT !.EAX = m.encoded_family,
                     !.EDX = m.features_edx,
                     !.ECX = m.features_ecx]
    ELSE out

\* ChangeCpuId that rewrites all four registers of every rewritten leaf.
ChangeCpuId_ClearsOthers(emulate, info, inputEax, inputEcx, out) ==
    LET m == CpuModel(info)
        zero == [EAX |-> U32(0, 0), EBX |-> U32(0, 0), ECX |-> U32(0, 0), EDX |-> U32(0, 0)]
    IN
    IF ~emulate THEN out
    ELSE IF inputEax = U32(0, 0)
    THEN [out EXCEPT !.EAX = m.max_input,
                     !.EBX = U32(30062, 25927),
                     !.EDX = U32(18789, 28265),
                     !.ECX = U32(27749, 29806)]
    ELSE IF inputEax = U32(0, 1)
    THEN [zero EXCEPT !.EAX = m.encoded_family,
                      !.EDX = m.features_edx,
                      !.ECX = m.features_ecx]
    ELSE IF inputEax = U32(32768, 0)
    THEN [zero EXCEPT !.EAX = m.max_ext_input]
    ELSE IF inputEax = U32(32768, 1)
    THEN IF GeqU32(m.max_ext_input, U32(32768, 1))
         THEN [zero EXCEPT !.EDX = m.features_ext_edx, !.ECX = m.features_ext_ecx]
         ELSE zero
    ELSE IF inputEax = U32(0, 7)
    THEN IF GeqU32(m.max_input, U32(0, 7))
         THEN [zero EXCEPT !.EBX = m.features_sext_ebx]
         ELSE zero
    ELSE out

\* ChangeCpuId(inputEax, inputEcx, outputEax, outputEbx, outputEcx, outputEdx):
\* out holds the four registers the pointers refer to, the result is their
\* content after the call.
ChangeCpuId(emulate, info, inputEax, inputEcx, out) ==
    LET m == CpuModel(info) IN
    IF ~emulate THEN out
    ELSE IF inputEax = U32(0, 0)
    THEN [out EXCEPT !.EAX = m.max_input,
                     !.EBX = U32(30062, 25927),
                     !.EDX = U32(18789, 28265),
                     !.ECX = U32(27749, 29806)]
    ELSE IF inputEax = U32(0, 1)
    THEN [out EXCEPT !.EAX = m.encoded_family,
                     !.EDX = m.features_edx,
                     !.ECX = m.features_ecx]
    ELSE IF inputEax = U32(32768, 0)
    THEN [out EXCEPT !.EAX = m.max_ext_input]
    ELSE IF inputEax = U32(32768, 1)
    THEN IF GeqU32(m.max_ext_input, U32(32768, 1))
         THEN [out EXCEPT !.EDX = m.features_ext_edx, !.ECX = m.features_ext_ecx]
         ELSE [out EXCEPT !.EDX = U32(0, 0), !.ECX = U32(0, 0)]
    ELSE IF inputEax = U32(0, 7) /\ inputEcx = U32(0, 0)
    THEN IF GeqU32(m.max_input, U32(0, 7))
         THEN [out EXCEPT !.EBX = m.features_sext_ebx]
         ELSE [out EXCEPT !.EBX = U32(0, 0)]
    ELSE out

\* 0xBADBADBADBADBAD, the value of -r that leaves RDRAND alone.
FixedRandomSentinel == <<2989, 47835, 44474, 56237>>

\* The test `KnobFixedRandomNumbers.Value() != 0xBADBADBADBADBAD` without its negation.
UseFixedRandomNumber_Inverted(knobValue) == knobValue = FixedRandomSentinel

\* main: _useFixedRandomNumber after the check of the -r option.
UseFixedRandomNumber(knobValue) == knobValue # FixedRandomSentinel

----------------------------------------------------------------------------
(* Input domains of the CPUID / RDRAND rewrites and of the family encoder *)

\* Values of the -c option.
CpuFeatureLevels == {-1, 0, 1, 2, 3, 4, 5}
\* Values of the -r option, as UINT64 limbs: the default 841534158063459245
\* (which is 0xBADBADBADBADBAD) and 0x0000000100000002.
FixedRandomNumbers == {<<2989, 47835, 44474, 56237>>, <<0, 1, 0, 2>>}
\* Values the host RDRAND produces.
HostRandomNumbers == {<<0, 0, 0, 7>>, <<1, 2, 3, 4>>}
\* CPUID leaves (EAX) and subleaves (ECX) the target asks for.
CpuIdLeaves == {U32(0, 0), U32(0, 1), U32(0, 2), U32(0, 7), U32(32768, 0), U32(32768, 1)}
CpuIdSubleaves == {U32(0, 0), U32(0, 1)}
\* What the host CPUID leaves in EAX, EBX, ECX, EDX.
HostCpuIdOutputs ==
    {[EAX |-> U32(0, 22), EBX |-> U32(1, 2), ECX |-> U32(3, 4), EDX |-> U32(5, 6)],
     [EAX |-> U32(0, 1), EBX |-> U32(0, 0), ECX |-> U32(0, 0), EDX |-> U32(0, 7)]}
\* EBX and EDX before a CPUID instruction.
OtherRegisterValues == {U32(9, 9)}
\* Inputs of cpuid_encode_family.
Families == {5, 6, 15, 16, 270, 271}
Models == {0, 7, 15, 16, 44, 58}
Steppings == {2, 9, 11, 16}

----------------------------------------------------------------------------
(* Strings are sequences of characters, so that splitting, lower-casing and  *)
(* substring search are computed as the code computes them.                  *)

\* std::tolower on one character.
ToLowerChar(c) ==
    CASE c = "A" -> "a"
      [] c = "B" -> "b"
      [] c = "S" -> "s"
      [] OTHER -> c

\* tolower(str) (Utilities.cpp)
tolower(str) == [i \in 1..Len(str) |-> ToLowerChar(str[i])]

\* imageNameLower.find(item) != std::string::npos
Contains(haystack, needle) ==
    \E i \in 0..(Len(haystack) - Len(needle)) :
        SubSeq(haystack, i + 1, i + Len(needle)) = needle

RECURSIVE GetlineLoop(_, _, _, _)
\* The loop `while(std::getline(stream, item, delim)) if(!item.empty()) {...}`
\* of main: rest is the unread input, item the characters read since the last
\* delimiter, list the items pushed so far.
GetlineLoop(rest, item, list, delim) ==
    IF rest = << >>
    THEN IF item = << >> THEN list ELSE Append(list, tolower(item))
    ELSE IF Head(rest) = delim
         THEN GetlineLoop(Tail(rest), << >>,
                          IF item = << >> THEN list ELSE Append(list, tolower(item)), delim)
         ELSE GetlineLoop(Tail(rest), Append(item, Head(rest)), list, delim)

\* main: _interestingImages after the split of the -i option.
SplitInterestingImages(knobValue) == GetlineLoop(knobValue, << >>, << >>, ":")

\* InstrumentImage: INT8 interesting
IsInterestingImage(interestingImages, imageName) ==
    IF \E k \in 1..Len(interestingImages) : Contains(tolower(imageName), interestingImages[k])
    THEN 1 ELSE 0

HexDigits == <<"0", "1", "2", "3", "4", "5", "6", "7", "8", "9", "a", "b", "c", "d", "e", "f">>

RECURSIVE Hex(_)
\* operator<< of an integer on a stream in std::hex mode
Hex(n) == IF n < 16 THEN <<HexDigits[n + 1]>> ELSE Append(Hex(n \div 16), HexDigits[(n % 16) + 1])

\* The line of WriteImageLoadData with the end address before the start address.
ImageLoadLine_EndFirst(interesting, startAddress, endAddress, name) ==
    <<"i", "\t">> \o Hex(interesting) \o <<"\t">> \o Hex(endAddress) \o <<"\t">>
        \o Hex(startAddress) \o <<"\t">> \o name \o <<"\n">>

\* The line WriteImageLoadData sends to the metadata stream; std::endl ends it.
\* (interesting is 0 or 1, which reads the same in decimal and in hex mode.)
ImageLoadLine(interesting, startAddress, endAddress, name) ==
    <<"i", "\t">> \o Hex(interesting) \o <<"\t">> \o Hex(startAddress) \o <<"\t">>
        \o Hex(endAddress) \o <<"\t">> \o name \o <<"\n">>

\* new ImageData(interesting, imageName, imageStart, imageEnd)
ImageData(interesting, name, startAddress, endAddress) ==
    [interesting |-> interesting # 0, name |-> name,
     startAddress |-> startAddress, endAddress |-> endAddress]

\* ImageData::ContainsBasicBlock for a block with the given head and tail address
ContainsBasicBlock(img, headAddress, tailAddress) ==
    img.startAddress <= headAddress /\ tailAddress <= img.endAddress

\* The images the loader can report: IMG_Name, IMG_LowAddress, IMG_HighAddress.
ImageFiles ==
    {[name |-> <<"A", ".", "s", "o">>, low |-> 16, high |-> 31],
     [name |-> <<"b", ".", "s", "o">>, low |-> 32, high |-> 47],
     [name |-> <<"c", ";", "d">>, low |-> 64, high |-> 79],
     [name |-> <<"l", "i", "b", "c", ".", "s", "o">>, low |-> 80, high |-> 95]}

\* Images whose address ranges overlap, as images of several regions do, and
\* the addresses of the first and last instruction of the blocks looked up in
\* a registry of them: the bounds of the ranges and their neighbours.
LookupImages ==
    {ImageData(i, <<"i", "m", "g">>, r[1], r[2]) :
        i \in {0, 1}, r \in {<<16, 31>>, <<24, 39>>, <<16, 39>>}}

BlockAddrs == {15, 16, 23, 24, 31, 32, 39, 40}

\* Values of the -i option.
InterestingImageLists ==
    {<<".", "e", "x", "e">>,
     <<"a">>,
     <<"A", ".", "S">>,
     <<"a", ":", "b">>,
     <<"a", ";", "b">>,
     <<":", "b", ":">>,
     <<"b", ";">>,
     <<";">>,
     <<"x", ":", ";">>,
     << >>}

----------------------------------------------------------------------------
(* The instrumentation planner: InstrumentTrace, per instruction.            *)

\* What Pin and XED report about an instruction.
Instruction(mnemonic, segmentPrefix, opcode, isCall, isBranch, isRet, isMemoryRead, hasMemoryRead2, isMemoryWrite, writesRSP) ==
    [Mnemonic |-> mnemonic,
     SegmentPrefix |-> segmentPrefix,
     Opcode |-> opcode,
     IsCall |-> isCall,
     IsBranch |-> isBranch,
     IsRet |-> isRet,
     IsControlFlow |-> isCall \/ isBranch \/ isRet,
     IsMemoryRead |-> isMemoryRead,
     HasMemoryRead2 |-> hasMemoryRead2,
     IsMemoryWrite |-> isMemoryWrite,
     IsStandardMemop |-> TRUE,
     FullRegWContainRSP |-> writesRSP]

\* The instructions of the target; the instruction at address a is number
\* a % 16 of this list, in every image.
Instructions ==
    <<Instruction("mov rax, [rbx]", FALSE, "MOV", FALSE, FALSE, FALSE, TRUE, FALSE, FALSE, FALSE),
      Instruction("mov [rbx], rax", FALSE, "MOV", FALSE, FALSE, FALSE, FALSE, FALSE, TRUE, FALSE),
      Instruction("mov rax, gs:[40]", TRUE, "MOV", FALSE, FALSE, FALSE, TRUE, FALSE, FALSE, FALSE),
      Instruction("push rax", FALSE, "PUSH", FALSE, FALSE, FALSE, FALSE, FALSE, TRUE, TRUE),
      Instruction("pop rax", FALSE, "POP", FALSE, FALSE, FALSE, TRUE, FALSE, FALSE, TRUE),
      Instruction("lea rax, [rbx+8]", FALSE, "LEA", FALSE, FALSE, FALSE, FALSE, FALSE, FALSE, FALSE),
      Instruction("call rel32", FALSE, "CALL_NEAR", TRUE, FALSE, FALSE, FALSE, FALSE, TRUE, TRUE),
      Instruction("call gs:[16]", TRUE, "CALL_NEAR", TRUE, FALSE, FALSE, TRUE, FALSE, TRUE, TRUE),
      Instruction("jz rel8", FALSE, "JZ", FALSE, TRUE, FALSE, FALSE, FALSE, FALSE, FALSE),
      Instruction("ret", FALSE, "RET_NEAR", FALSE, FALSE, TRUE, TRUE, FALSE, FALSE, TRUE),
      Instruction("cpuid", FALSE, "CPUID", FALSE, FALSE, FALSE, FALSE, FALSE, FALSE, FALSE),
      Instruction("rdrand rax", FALSE, "RDRAND", FALSE, FALSE, FALSE, FALSE, FALSE, FALSE, FALSE),
      Instruction("leave", FALSE, "LEAVE", FALSE, FALSE, FALSE, TRUE, FALSE, FALSE, TRUE),
      Instruction("cmpsb", FALSE, "CMPSB", FALSE, FALSE, FALSE, TRUE, TRUE, FALSE, FALSE),
      Instruction("movsb", FALSE, "MOVSB", FALSE, FALSE, FALSE, TRUE, FALSE, TRUE, FALSE),
      Instruction("pushfq", FALSE, "PUSHFQ", FALSE, FALSE, FALSE, FALSE, FALSE, TRUE, TRUE)>>

\* INS at an address
InsAt(address) == Instructions[(address % 16) + 1]

\* The opcodes from XED_ICLASS_PUSH to XED_ICLASS_PUSHFQ of the push family,
\* and from XED_ICLASS_POP to XED_ICLASS_POPFQ of the pop family.
PushFamily == {"PUSH", "PUSHA", "PUSHAD", "PUSHF", "PUSHFD", "PUSHFQ"}
PopFamily == {"POP", "POPA", "POPAD", "POPF", "POPFD", "POPFQ"}

\* One INS_InsertCall / INS_InsertIfCall + INS_InsertThenCall of an analysis
\* function at an instrumentation point, with its static argument.  Every
\* Insert*Entry call is inserted together with the CheckBufferFull /
\* CheckBufferAndStore pair that follows it.
AnalysisCall(fn, ipoint, arg) == [fn |-> fn, ipoint |-> ipoint, arg |-> arg]

\* InstrumentTrace that looks at the image before it looks at the branches.
InstrumentIns_InterestFirst(ins, interesting, useFixed, stackTracking) ==
    IF ins.SegmentPrefix \/ ins.Opcode \in PushFamily \/ ins.Opcode \in PopFamily
       \/ ins.Opcode = "LEA" \/ ~interesting
    THEN << >>
    ELSE IF ins.IsCall /\ ins.IsControlFlow
    THEN <<AnalysisCall("InsertBranchEntry", "BEFORE", BranchTypeCall)>>
    ELSE IF ins.IsBranch /\ ins.IsControlFlow
    THEN <<AnalysisCall("InsertBranchEntry", "BEFORE", BranchTypeJump)>>
    ELSE IF ins.IsRet /\ ins.IsControlFlow
    THEN <<AnalysisCall("InsertRetBranchEntry", "TAKEN_BRANCH", 0)>>
    ELSE (IF ins.IsMemoryRead /\ ins.IsStandardMemop
          THEN <<AnalysisCall("InsertMemoryReadEntry", "BEFORE", 1)>> ELSE << >>)
         \o (IF ins.IsMemoryWrite /\ ins.IsStandardMemop
             THEN <<AnalysisCall("InsertMemoryWriteEntry", "BEFORE", 0)>> ELSE << >>)

\* InstrumentTrace without the rules that skip push, pop and lea.
InstrumentIns_NoSkipSet(ins, interesting, useFixed, stackTracking) ==
    IF ins.SegmentPrefix
    THEN << >>
    ELSE IF ins.IsCall /\ ins.IsControlFlow
    THEN <<AnalysisCall("InsertBranchEntry", "BEFORE", BranchTypeCall)>>
    ELSE IF ins.IsBranch /\ ins.IsControlFlow
    THEN <<AnalysisCall("InsertBranchEntry", "BEFORE", BranchTypeJump)>>
    ELSE IF ins.IsRet /\ ins.IsControlFlow
    THEN <<AnalysisCall("InsertRetBranchEntry", "TAKEN_BRANCH", 0)>>
    ELSE IF ~interesting
    THEN << >>
    ELSE (IF ins.IsMemoryRead /\ ins.IsStandardMemop
          THEN <<AnalysisCall("InsertMemoryReadEntry", "BEFORE", 1)>> ELSE << >>)
         \o (IF ins.IsMemoryWrite /\ ins.IsStandardMemop
             THEN <<AnalysisCall("InsertMemoryWriteEntry", "BEFORE", 0)>> ELSE << >>)

\* InstrumentTrace, the body of the loop over the instructions of a block of
\* an image that is interesting or not: the calls it inserts, in this order.
InstrumentIns(ins, interesting, useFixed, stackTracking) ==
    IF ins.SegmentPrefix
    THEN << >>
    ELSE IF ins.Opcode \in PushFamily
    THEN << >>
    ELSE IF ins.Opcode \in PopFamily
    THEN << >>
    ELSE IF ins.Opcode = "LEA"
    THEN << >>
    ELSE IF ins.Opcode = "CPUID"
    THEN <<AnalysisCall("PIN_SetContextReg", "BEFORE", "EAX"),
           AnalysisCall("PIN_SetContextReg", "BEFORE", "ECX"),
           AnalysisCall("ChangeCpuId", "AFTER", 0)>>
    ELSE IF ins.Opcode = "RDRAND" /\ useFixed
    THEN <<AnalysisCall("ChangeRandomNumber", "AFTER", 0)>>
    ELSE IF ins.IsCall /\ ins.IsControlFlow
    THEN <<AnalysisCall("InsertBranchEntry", "BEFORE", BranchTypeCall)>>
         \o (IF stackTracking
             THEN <<AnalysisCall("InsertStackPointerModificationEntry", "TAKEN_BRANCH", StackIsCall)>>
             ELSE << >>)
    ELSE IF ins.IsBranch /\ ins.IsControlFlow
    THEN <<AnalysisCall("InsertBranchEntry", "BEFORE", BranchTypeJump)>>
    ELSE IF ins.IsRet /\ ins.IsControlFlow
    THEN <<AnalysisCall("InsertRetBranchEntry", "TAKEN_BRANCH", 0)>>
         \o (IF stackTracking
             THEN <<AnalysisCall("InsertStackPointerModificationEntry", "TAKEN_BRANCH", StackIsReturn)>>
             ELSE << >>)
    ELSE IF ~interesting
    THEN << >>
    ELSE (IF stackTracking /\ ins.FullRegWContainRSP
          THEN <<AnalysisCall("InsertStackPointerModificationEntry", "AFTER", StackIsOther)>>
          ELSE << >>)
         \o (IF ins.IsMemoryRead /\ ins.IsStandardMemop
             THEN <<AnalysisCall("InsertMemoryReadEntry", "BEFORE", 1)>> ELSE << >>)
         \o (IF ins.HasMemoryRead2 /\ ins.IsStandardMemop
             THEN <<AnalysisCall("InsertMemoryReadEntry", "BEFORE", 2)>> ELSE << >>)
         \o (IF ins.IsMemoryWrite /\ ins.IsStandardMemop
             THEN <<AnalysisCall("InsertMemoryWriteEntry", "BEFORE", 0)>> ELSE << >>)

\* The search of the image of a block in which the last image that contains
\* the block decides.
IsInterestingBlock_LastMatch(registry, headAddress, tailAddress) ==
    LET hits == {k \in 1..Len(registry) : ContainsBasicBlock(registry[k], headAddress, tailAddress)}
    IN  IF hits = {} THEN TRUE
        ELSE registry[CHOOSE k \in hits : \A j \in hits : k >= j].interesting

\* InstrumentTrace, the search of the image of a block: the first image of
\* the registry that contains it decides; a block of no image is interesting.
IsInterestingBlock(registry, headAddress, tailAddress) ==
    LET hits == {k \in 1..Len(registry) : ContainsBasicBlock(registry[k], headAddress, tailAddress)}
    IN  IF hits = {} THEN TRUE
        ELSE registry[CHOOSE k \in hits : \A j \in hits : k <= j].interesting

\* InstrumentTrace, the search of the image of a block: no image of the
\* registry contains it (img == nullptr), and the message "Error: Cannot
\* resolve image of basic block ... (instrumenting as 'interesting')" goes to
\* std::cerr.
CannotResolveImage(registry, headAddress, tailAddress) ==
    \A k \in 1..Len(registry) : ~ContainsBasicBlock(registry[k], headAddress, tailAddress)

\* The order in which Pin runs the calls of one instruction: those inserted
\* before the instruction, the instruction itself, those inserted after it
\* or on its taken branch.
Execute == AnalysisCall("execute", "INS", 0)

\* RuntimeOrder in the order of the insertion calls, whatever their points.
RuntimeOrder_InsertionOrder(calls) ==
    calls \o <<Execute>>

RuntimeOrder(calls) ==
    SelectSeq(calls, LAMBDA c : c.ipoint = "BEFORE")
        \o <<Execute>>
        \o SelectSeq(calls, LAMBDA c : c.ipoint # "BEFORE")

----------------------------------------------------------------------------
(* Files *)

\* filenameStream << "t" << std::dec << _testcaseId << ".trace"
TestcaseFileName(id) ==
    CASE id = -1 -> "t-1.trace"
      [] id = 1 -> "t1.trace"
      [] id = 2 -> "t2.trace"
      [] id = 3 -> "t3.trace"
      [] OTHER -> "t?.trace"

PrefixFileName == "prefix.trace"

PrefixDataFileName == "prefix_data.txt"

TraceFileNames == {PrefixFileName} \cup {TestcaseFileName(id) : id \in TestcaseIds}

OutputFileNames == TraceFileNames \cup {PrefixDataFileName}

----------------------------------------------------------------------------
(* The trace buffer *)

\* A TraceEntry; seq is a history stamp (number of the append that last wrote
\* the slot), it is not part of the 24 bytes.
ZeroEntry == [Type |-> 0, Flag |-> 0, Param0 |-> 0, Param1 |-> 0, Param2 |-> 0, seq |-> 0]

\* TraceWriter::Begin() called on the object at address this.
Begin(this) == this + EntriesOffset

\* TraceWriter::End() called on the object at address this.
End(this) == Begin(this) + ENTRY_BUFFER_SIZE * SizeofTraceEntry

\* Does the address point at a slot of the buffer of thread 0's writer?
IsSlotAddr(addr) ==
    /\ addr >= Begin(WriterAddr)
    /\ addr < End(WriterAddr)
    /\ (addr - Begin(WriterAddr)) % SizeofTraceEntry = 0

SlotOf(addr) == (addr - Begin(WriterAddr)) \div SizeofTraceEntry

\* ++nextEntry
PtrInc(p) == p + SizeofTraceEntry

----------------------------------------------------------------------------
(* The harness: PinTracerWrapper.cpp, and main.c of the C template.  Lines  *)
(* of stdin are sequences of characters that end with "\n".                  *)

DecDigits == <<"0", "1", "2", "3", "4", "5", "6", "7", "8", "9">>

RECURSIVE Dec(_)
\* The decimal digits of a natural number, as the driver writes the id.
Dec(n) == IF n < 10 THEN <<DecDigits[n + 1]>> ELSE Append(Dec(n \div 10), DecDigits[(n % 10) + 1])

IsSpace(c) == c \in {" ", "\t", "\n"}

IsDigit(c) == \E d \in 1..10 : DecDigits[d] = c

DigitValue(c) == (CHOOSE d \in 1..10 : DecDigits[d] = c) - 1

RECURSIVE SkipSpace(_)
\* White space in a scanf format: skips any white space of the input.
SkipSpace(s) == IF s # << >> /\ IsSpace(Head(s)) THEN SkipSpace(Tail(s)) ELSE s

RECURSIVE ScanDigits(_, _)
\* The digits of %d: the value read so far and the input behind the digits.
ScanDigits(s, value) ==
    IF s # << >> /\ IsDigit(Head(s))
    THEN ScanDigits(Tail(s), 10 * value + DigitValue(Head(s)))
    ELSE value

\* sscanf(inputBuffer, "%c %d", &command, &testcaseId): %c takes the first
\* character, %d skips white space and reads an optional sign and digits; a
\* conversion that fails leaves its variable, and those behind it, unassigned.
\* `assigned' is the number of variables that were assigned.
Sscanf(inputBuffer) ==
    IF inputBuffer = << >> THEN [assigned |-> 0, command |-> "", testcaseId |-> 0]
    ELSE LET rest == SkipSpace(Tail(inputBuffer))
             negative == rest # << >> /\ Head(rest) = "-"
             digits == IF rest # << >> /\ Head(rest) \in {"-", "+"} THEN Tail(rest) ELSE rest
         IN  IF digits # << >> /\ IsDigit(Head(digits))
             THEN [assigned |-> 2, command |-> Head(inputBuffer),
                   testcaseId |-> (IF negative THEN -1 ELSE 1) * ScanDigits(digits, 0)]
             ELSE [assigned |-> 1, command |-> Head(inputBuffer), testcaseId |-> 0]

\* fgets(inputBuffer, sizeof(inputBuffer), stdin): the next line with its
\* newline; at the end of the input the buffer keeps its content.  The result
\* of fgets is not looked at.
Fgets(inputBuffer, stream) ==
    IF stream = << >> THEN [inputBuffer |-> inputBuffer, stdin |-> stream]
    ELSE [inputBuffer |-> Head(stream), stdin |-> Tail(stream)]

\* The file name with its newline left in place.
StripNewline_Keep(inputBuffer) == inputBuffer

\* The file name: the buffer without the newline at its end.
StripNewline(inputBuffer) ==
    IF Len(inputBuffer) > 0 /\ inputBuffer[Len(inputBuffer)] = "\n"
    THEN SubSeq(inputBuffer, 1, Len(inputBuffer) - 1)
    ELSE inputBuffer

\* The testcase files that exist, and the commands the driver sends: a
\* testcase with its id and its file, or the end.
ExistingFiles == {<<"a">>, <<"b">>, <<"t">>}

TestcaseCommands ==
    {[cmd |-> "t", id |-> 1, file |-> <<"a">>],
     [cmd |-> "t", id |-> 2, file |-> <<"x">>],
     [cmd |-> "t", id |-> 10, file |-> <<"b">>]}

ExitCommand == [cmd |-> "e", id |-> 0, file |-> << >>]

\* The lines the driver writes for a command: "t <id>\n<path>\n" or "e 0\n".
CommandLines(c) ==
    IF c.cmd = "e" THEN << <<"e", " ">> \o Dec(c.id) \o <<"\n">> >>
    ELSE << <<"t", " ">> \o Dec(c.id) \o <<"\n">>, c.file \o <<"\n">> >>

RECURSIVE ScriptLines(_)
ScriptLines(script) ==
    IF script = << >> THEN << >> ELSE CommandLines(Head(script)) \o ScriptLines(Tail(script))

\* The scripts of the driver: up to MaxCommands testcases, the end command,
\* and possibly a testcase behind it.
HarnessScripts ==
    {t \o <<ExitCommand>> \o r :
        t \in UNION {[1..n -> TestcaseCommands] : n \in 0..MaxCommands},
        r \in {<< >>} \cup {<<c>> : c \in TestcaseCommands}}

\* The scripts of a driver that closes the pipe without the end command: up
\* to MaxCommands testcases, among them files named "t" and "e".
EofCommands ==
    TestcaseCommands \cup {[cmd |-> "t", id |-> 3, file |-> <<"t">>],
                           [cmd |-> "t", id |-> 4, file |-> <<"e">>]}

EofScripts == UNION {[1..n -> EofCommands] : n \in 0..MaxCommands}

HarnessKinds == {"PinTracerWrapper", "template"}

\* argv[1] of the fuzzing wrapper: 1 for fuzzing mode, 2 for trace mode, and
\* a value that is neither.
WrapperModes == {0, 1, 2}

\* 0x10000 and 0xFFFF as UINT64.
Word0x10000 == <<0, 0, 1, 0, 0, 0, 0, 0>>
Word0xFFFF == <<255, 255, 0, 0, 0, 0, 0, 0>>

\* Values of rsp at the entry of ReadAndSendStackPointer: 0x7FFE12345678,
\* 0x7FFE12355678 and 0x7FFE12350000.
StackBases ==
    {<<120, 86, 52, 18, 254, 127, 0, 0>>,
     <<120, 86, 53, 18, 254, 127, 0, 0>>,
     <<0, 0, 53, 18, 254, 127, 0, 0>>}

\* Values of rlim_cur: 8 MiB, and RLIM_INFINITY.  When getrlimit fails the
\* value is indeterminate: one of these.
StackLimits ==
    {<<0, 0, 128, 0, 0, 0, 0, 0>>,
     <<255, 255, 255, 255, 255, 255, 255, 255>>}

\* ReadAndSendStackPointer: the arguments of PinNotifyStackPointer.  The mask
\* is ~0x10000ull in PinTracerWrapper.cpp and ~0xFFFFull in the template.
StackBounds(kind, stackBase, rlim_cur) ==
    [stackMin |-> Sub64(stackBase, rlim_cur),
     stackMax |-> And64(Add64(stackBase, Word0x10000),
                        IF kind = "PinTracerWrapper"
                        THEN Not64(Word0x10000)
                        ELSE Not64(Word0xFFFF))]

\* A call the harness has made, with its integer or its file argument.
HarnessCall(fn, id, file) == [fn |-> fn, id |-> id, file |-> file]

\* No harness runs.
NoHarness ==
    [kind |-> "none", pc |-> "none", script |-> << >>, stdin |-> << >>,
     inputBuffer |-> << >>, assigned |-> 0, command |-> "", testcaseId |-> 0,
     inputFile |-> << >>, targetInitialized |-> 0, calls |-> << >>, errors |-> << >>,
     exitCode |-> -1,
     stackBase |-> <<0, 0, 53, 18, 254, 127, 0, 0>>, rlim_cur |-> <<0, 0, 128, 0, 0, 0, 0, 0>>,
     stackMin |-> <<0, 0, 0, 0, 0, 0, 0, 0>>, stackMax |-> <<0, 0, 0, 0, 0, 0, 0, 0>>,
     mode |-> 0, retryCount |-> 0, pipe |-> "INVALID_HANDLE_VALUE",
     pipeDelay |-> 0, pipeFailures |-> 0]

\* The harness at the entry of main(), with the lines of the script on stdin.
HarnessAtMain(kind, script) ==
    [NoHarness EXCEPT !.kind = kind, !.pc = "main", !.script = script,
                      !.stdin = ScriptLines(script)]

----------------------------------------------------------------------------
(* State *)

VARIABLES
    status,                 \* "running", or how the process ended / went wrong
    started,                \* per thread: ThreadStart has run
    exited,                 \* per thread: ThreadFini has run
    nextReg,                \* per thread: _nextBufferEntryReg
    endReg,                 \* per thread: _entryBufferEndReg
    tlsWriter,              \* per thread: PIN_GetThreadData(_traceWriterTlsKey, tid)
    pc,                     \* per thread: which analysis call of the current hook group is due
    entries,                \* TraceWriter::_entries of thread 0's writer
    testcaseId,             \* TraceWriter::_testcaseId
    prefixMode,             \* TraceWriter::_prefixMode (static)
    outOpen,                \* _outputFileStream.is_open()
    currentOutputFilename,  \* TraceWriter::_currentOutputFilename
    prefixDataOpen,         \* _prefixDataFileStream.is_open() (static)
    files,                  \* contents of the .trace files, as whole entries
    fileBytes,              \* number of bytes of each .trace file
    stdout,                 \* the "t\t<file>" lines written to std::cout
    appendsLeft,            \* workload: entries the target may still cause
    markersLeft,            \* workload: marker calls the target may still make
    nAppends,               \* history: number of entries stored so far
    phase,                  \* history: "prefix", "testcase" or "idle", by the markers seen on thread 0
    firstStartAt,           \* history: nAppends at the first TestcaseStart, -1 before it
    idleSeqs,               \* history: stamps of the entries stored between TestcaseEnd and TestcaseStart
    tcId,                   \* history: id of the last TestcaseStart
    tcLog,                  \* history: entries stored since the last TestcaseStart, frozen at its TestcaseEnd
    tcFlushes,              \* history: buffer-full flushes since the last marker
    nEnded,                 \* history: number of testcases closed by a TestcaseEnd
    knobCpuFeatureLevel,    \* command line: -c
    knobFixedRandomNumbers, \* command line: -r
    knobInterestingImageList, \* command line: -i
    emulateCpuModel,        \* _emulateCpuModel
    emulatedCpuModelInfo,   \* _emulatedCpuModelInfo, by the name of the profile it points to
    useFixedRandomNumber,   \* _useFixedRandomNumber
    fixedRandomNumber,      \* _fixedRandomNumber
    interestingImages,      \* _interestingImages
    enableStackAllocationTracking, \* _enableStackAllocationTracking
    program,                \* workload: the addresses of the instructions the target executes
    regs,                   \* EAX, EBX, ECX, EDX of thread 0
    rdest,                  \* the destination register of RDRAND of thread 0
    cpuIdEaxInputReg,       \* the tool register _cpuIdEaxInputReg of thread 0
    cpuIdEcxInputReg,       \* the tool register _cpuIdEcxInputReg of thread 0
    cpuIn,                  \* history: inputs and host outputs of the last CPUID / RDRAND
    encIn,                  \* arguments of the last cpuid_encode_family call
    encOut,                 \* its result
    images,                 \* _images
    prefixData,             \* the lines of prefix_data.txt
    loads,                  \* history: the image loads the framework has reported
    imagesLeft,             \* workload: image loads still to come
    due,                    \* per thread: the calls Pin has still to make at the current instruction or routine
    curIns,                 \* history: the last instruction thread 0 has begun, with its instrumentation
    instructionsLeft,       \* workload: instructions the target may still execute
    callStack,              \* the routine frames of the target on thread 0
    events,                 \* history: routine entries, tail jumps and returns of the target
    callsLeft,              \* workload: such events still to come
    openable,               \* the output file names the file system lets the tool open
    stderr,                 \* the warnings written to std::cerr
    harness                 \* the harness process: its position, variables, input and calls

progVars == <<status, started, exited, nextReg, endReg, tlsWriter, pc, entries,
              testcaseId, prefixMode, outOpen, currentOutputFilename, prefixDataOpen,
              files, fileBytes, stdout>>

histVars == <<appendsLeft, markersLeft, nAppends, phase, firstStartAt, idleSeqs,
              tcId, tcLog, tcFlushes, nEnded>>

\* What main() sets up, and the workload's program: constant after Init.
configVars == <<knobCpuFeatureLevel, knobFixedRandomNumbers, knobInterestingImageList,
                emulateCpuModel, emulatedCpuModelInfo, useFixedRandomNumber, fixedRandomNumber,
                interestingImages, enableStackAllocationTracking, program, openable>>

cpuVars == <<regs, rdest, cpuIdEaxInputReg, cpuIdEcxInputReg, cpuIn>>

encVars == <<encIn, encOut>>

imgVars == <<images, prefixData, loads, imagesLeft>>

insVars == <<curIns, instructionsLeft, stderr>>

allocVars == <<callStack, events, callsLeft>>

\* Everything but the writer, the threads and the calls that are due.
harnessVars == <<harness>>

extVars == <<configVars, cpuVars, encVars, imgVars, insVars, allocVars, harnessVars>>

vars == <<progVars, histVars, due, extVars>>

writerVars == <<testcaseId, prefixMode, outOpen, currentOutputFilename, prefixDataOpen,
                files, fileBytes, stdout>>

----------------------------------------------------------------------------
(* TraceWriter: the member functions as transformers of the writer state w *)

\* The writer state of the current state, as one record.
Writer ==
    [testcaseId |-> testcaseId, prefixMode |-> prefixMode, outOpen |-> outOpen,
     currentOutputFilename |-> currentOutputFilename, prefixDataOpen |-> prefixDataOpen,
     files |-> files, fileBytes |-> fileBytes, stdout |-> stdout, result |-> "ok"]

\* The next state takes the writer state from the record w.
SetWriter(w) ==
    /\ testcaseId' = w.testcaseId
    /\ prefixMode' = w.prefixMode
    /\ outOpen' = w.outOpen
    /\ currentOutputFilename' = w.currentOutputFilename
    /\ prefixDataOpen' = w.prefixDataOpen
    /\ files' = w.files
    /\ fileBytes' = w.fileBytes
    /\ stdout' = w.stdout

\* What becomes of the process when a member function ends with result r.
StatusAfter(r) == IF r = "ok" THEN "running" ELSE r

\* _outputFileStream.write(_entries, nbytes); the stream throws on failbit | badbit.
StreamWrite(w, nbytes) ==
    IF ~w.outOpen THEN [w EXCEPT !.result = "exception"]
    ELSE IF nbytes < 0 \/ nbytes > ENTRY_BUFFER_SIZE * SizeofTraceEntry
         THEN [w EXCEPT !.result = "undefined"]
    ELSE [w EXCEPT
            !.files[w.currentOutputFilename] =
                @ \o [i \in 1..(nbytes \div SizeofTraceEntry) |-> entries[i - 1]],
            !.fileBytes[w.currentOutputFilename] = @ + nbytes]

\* TraceWriter::OpenOutputFile(filename).  The stream is told to throw on
\* failbit | badbit before open(name, out | trunc | binary) is called; open
\* fails, and so throws, when the stream is already open or the file system
\* refuses the file.  The test of the stream behind it, which prints "Error:
\* Could not open output file" and calls exit(1) (result "exit1"), is reached
\* with a good stream only.
OpenOutputFile(w, filename) ==
    LET w1 == [w EXCEPT !.currentOutputFilename = filename]
        w2 == IF w1.outOpen \/ filename \notin openable
              THEN [w1 EXCEPT !.result = "exception"]
              ELSE [w1 EXCEPT !.outOpen = TRUE,
                              !.files[filename] = << >>,
                              !.fileBytes[filename] = 0]
    IN  IF w2.result = "ok" /\ ~w2.outOpen THEN [w2 EXCEPT !.result = "exit1"] ELSE w2

\* TraceWriter::InitPrefixMode(filenamePrefix): the prefix metadata stream is
\* told to throw before it is opened, as the trace stream is.
InitPrefixMode(w) ==
    LET w1 == [w EXCEPT !.prefixMode = TRUE]
        w2 == IF PrefixDataFileName \notin openable
              THEN [w1 EXCEPT !.result = "exception"]
              ELSE [w1 EXCEPT !.prefixDataOpen = TRUE]
    IN  IF w2.result = "ok" /\ ~w2.prefixDataOpen THEN [w2 EXCEPT !.result = "exit1"] ELSE w2

\* _outputFileStream.close(): fails, and throws, when no file is open.
StreamClose(w) ==
    IF ~w.outOpen THEN [w EXCEPT !.result = "exception"]
    ELSE [w EXCEPT !.outOpen = FALSE]

\* WriteBufferToFile that forgets the testcase id in its condition.
WriteBufferToFile_PrefixOnly(w, end) ==
    IF w.prefixMode
    THEN StreamWrite(w, end - Begin(WriterAddr))
    ELSE w

\* WriteBufferToFile without its condition.
WriteBufferToFile_Unguarded(w, end) ==
    StreamWrite(w, end - Begin(WriterAddr))

\* TraceWriter::WriteBufferToFile(end)
WriteBufferToFile(w, end) ==
    IF w.testcaseId # -1 \/ w.prefixMode
    THEN StreamWrite(w, end - Begin(WriterAddr))
    ELSE w

\* TestcaseEnd that does not save the remaining trace data.
TestcaseEndW_NoFlush(w, nextEntry) ==
    LET w2 == StreamClose(w)
        w3 == IF w2.result # "ok" THEN w2
              ELSE IF w2.prefixMode
                   THEN [w2 EXCEPT !.prefixDataOpen = FALSE, !.prefixMode = FALSE]
                   ELSE [w2 EXCEPT !.stdout = Append(@, w2.currentOutputFilename)]
    IN  IF w3.result = "ok" THEN [w3 EXCEPT !.testcaseId = -1] ELSE w3

\* TestcaseEnd that notifies the caller also when it leaves prefix mode.
TestcaseEndW_AlwaysNotify(w, nextEntry) ==
    LET w1 == IF nextEntry # Begin(WriterAddr) THEN WriteBufferToFile(w, nextEntry) ELSE w
        w2 == IF w1.result = "ok" THEN StreamClose(w1) ELSE w1
        w3 == IF w2.result # "ok" THEN w2
              ELSE [w2 EXCEPT !.prefixDataOpen = IF w2.prefixMode THEN FALSE ELSE @,
                              !.prefixMode = FALSE,
                              !.stdout = Append(@, w2.currentOutputFilename)]
    IN  IF w3.result = "ok" THEN [w3 EXCEPT !.testcaseId = -1] ELSE w3

\* TraceWriter::TestcaseEnd(nextEntry)
TestcaseEndW(w, nextEntry) ==
    LET w1 == IF nextEntry # Begin(WriterAddr) THEN WriteBufferToFile(w, nextEntry) ELSE w
        w2 == IF w1.result = "ok" THEN StreamClose(w1) ELSE w1
        w3 == IF w2.result # "ok" THEN w2
              ELSE IF w2.prefixMode
                   THEN [w2 EXCEPT !.prefixDataOpen = FALSE, !.prefixMode = FALSE]
                   ELSE [w2 EXCEPT !.stdout = Append(@, w2.currentOutputFilename)]
    IN  IF w3.result = "ok" THEN [w3 EXCEPT !.testcaseId = -1] ELSE w3

\* TestcaseStart that does not leave prefix mode.
TestcaseStartW_KeepPrefix(w, id, nextEntry) ==
    OpenOutputFile([w EXCEPT !.testcaseId = id], TestcaseFileName(id))

\* TraceWriter::TestcaseStart(testcaseId, nextEntry)
TestcaseStartW(w, id, nextEntry) ==
    LET w1 == IF w.prefixMode THEN TestcaseEndW(w, nextEntry) ELSE w
        w2 == IF w1.result = "ok" THEN [w1 EXCEPT !.testcaseId = id] ELSE w1
    IN  IF w2.result = "ok" THEN OpenOutputFile(w2, TestcaseFileName(w2.testcaseId)) ELSE w2

\* CheckBufferFull that never finds the buffer full.
CheckBufferFull_Never(nextEntry, entryBufferEnd) == FALSE

\* CheckBufferFull that is off by one entry.
CheckBufferFull_OffByOne(nextEntry, entryBufferEnd) ==
    nextEntry # NULL /\ nextEntry > entryBufferEnd

\* TraceWriter::CheckBufferFull(nextEntry, entryBufferEnd)
CheckBufferFull(nextEntry, entryBufferEnd) ==
    nextEntry # NULL /\ nextEntry = entryBufferEnd

\* CheckNextTraceEntryPointerValid(nextEntry): the address, which Pin tests against 0.
CheckNextTraceEntryPointerValid(nextEntry) == nextEntry

----------------------------------------------------------------------------
(* TraceWriter::Insert*Entry: what each helper stores into the slot whose     *)
(* previous content is e.  Fields a helper does not assign keep their value. *)

InsertMemoryReadEntry(e, instructionAddress, memoryAddress, size) ==
    [e EXCEPT !.Type = MemoryRead,
              !.Param0 = ToUINT16(size),
              !.Param1 = instructionAddress,
              !.Param2 = memoryAddress]

InsertMemoryWriteEntry(e, instructionAddress, memoryAddress, size) ==
    [e EXCEPT !.Type = MemoryWrite,
              !.Param0 = ToUINT16(size),
              !.Param1 = instructionAddress,
              !.Param2 = memoryAddress]

InsertHeapAllocSizeParameterEntry(e, size) ==
    [e EXCEPT !.Type = HeapAllocSizeParameter,
              !.Param1 = size]

InsertHeapAllocAddressReturnEntry(e, memoryAddress) ==
    [e EXCEPT !.Type = HeapAllocAddressReturn,
              !.Param2 = memoryAddress]

InsertHeapFreeAddressParameterEntry(e, memoryAddress) ==
    [e EXCEPT !.Type = HeapFreeAddressParameter,
              !.Param2 = memoryAddress]

InsertStackPointerModificationEntry(e, instructionAddress, newStackPointer, flags) ==
    [e EXCEPT !.Type = StackPointerModification,
              !.Flag = ToUINT8(flags),
              !.Param1 = instructionAddress,
              !.Param2 = newStackPointer]

\* InsertBranchEntry with the taken test inverted.
InsertBranchEntry_TakenInverted(e, sourceAddress, targetAddress, taken, type) ==
    [e EXCEPT !.Type = Branch,
              !.Param1 = sourceAddress,
              !.Param2 = targetAddress,
              !.Flag = BitOr(ToUINT8(type),
                             IF ToUINT8(taken) = 0 THEN BranchTaken ELSE BranchNotTaken)]

InsertBranchEntry(e, sourceAddress, targetAddress, taken, type) ==
    [e EXCEPT !.Type = Branch,
              !.Param1 = sourceAddress,
              !.Param2 = targetAddress,
              !.Flag = BitOr(ToUINT8(type),
                             IF ToUINT8(taken) = 0 THEN BranchNotTaken ELSE BranchTaken)]

\* The return address is read from the context after the ret; taken is `true`.
InsertRetBranchEntry(e, sourceAddress, retAddress) ==
    InsertBranchEntry(e, sourceAddress, retAddress, 1, BranchTypeReturn)

InsertStackPointerInfoEntry(e, stackPointerMin, stackPointerMax) ==
    [e EXCEPT !.Type = StackPointerInfo,
              !.Param1 = stackPointerMin,
              !.Param2 = stackPointerMax]

----------------------------------------------------------------------------
(* Initial state: main() has run (InitPrefixMode), no thread has started.   *)

\* The program after main() has run InitPrefixMode, under a file system
\* that lets the files `names' be opened.
InitProgramOn(names) ==
    /\ openable = names
    /\ status = StatusAfter(InitPrefixMode([prefixMode |-> FALSE, prefixDataOpen |-> FALSE, result |-> "ok"]).result)
    /\ started = [t \in Threads |-> FALSE]
    /\ exited = [t \in Threads |-> FALSE]
    /\ nextReg = [t \in Threads |-> NULL]
    /\ endReg = [t \in Threads |-> NULL]
    /\ tlsWriter = [t \in Threads |-> NULL]
    /\ pc = [t \in Threads |-> "ready"]
    /\ entries = [i \in 0..(ENTRY_BUFFER_SIZE - 1) |-> ZeroEntry]
    /\ testcaseId = -1
    /\ prefixMode = TRUE
    /\ outOpen = FALSE
    /\ currentOutputFilename = ""
    /\ prefixDataOpen = (PrefixDataFileName \in names)
    /\ files = [f \in TraceFileNames |-> << >>]
    /\ fileBytes = [f \in TraceFileNames |-> 0]
    /\ stdout = << >>
    /\ nAppends = 0
    /\ phase = "prefix"
    /\ firstStartAt = -1
    /\ idleSeqs = {}
    /\ tcId = -1
    /\ tcLog = << >>
    /\ tcFlushes = 0
    /\ nEnded = 0

\* The same under a file system that lets every output file be opened.
InitProgram == InitProgramOn(OutputFileNames)

\* main(): the globals after the command line options were read.
InitMain(c, r, i, s) ==
    /\ knobCpuFeatureLevel = c
    /\ knobFixedRandomNumbers = r
    /\ knobInterestingImageList = i
    /\ emulateCpuModel = SetEmulatedCpu(c).emulateCpuModel
    /\ emulatedCpuModelInfo = SetEmulatedCpu(c).emulatedCpuModelInfo
    /\ useFixedRandomNumber = UseFixedRandomNumber(r)
    /\ fixedRandomNumber = IF UseFixedRandomNumber(r) THEN r ELSE <<0, 0, 0, 0>>
    /\ interestingImages = SplitInterestingImages(i)
    /\ enableStackAllocationTracking = (s # 0)

\* main() with the default values of the options.
InitMainDefault == InitMain(0, FixedRandomSentinel, <<".", "e", "x", "e">>, 0)

\* The registers, the image registry and the target before anything ran, and
\* the harness in the state h.
InitMachineWith(h) ==
    /\ regs = [EAX |-> U32(0, 0), EBX |-> U32(0, 0), ECX |-> U32(0, 0), EDX |-> U32(0, 0)]
    /\ rdest = <<0, 0, 0, 0>>
    /\ cpuIdEaxInputReg = U32(0, 0)
    /\ cpuIdEcxInputReg = U32(0, 0)
    /\ cpuIn = [op |-> "none"]
    /\ encIn = << >>
    /\ encOut = [ok |-> TRUE, value |-> 0]
    /\ images = << >>
    /\ prefixData = << >>
    /\ loads = << >>
    /\ due = [t \in Threads |-> << >>]
    /\ curIns = [address |-> -1]
    /\ callStack = << >>
    /\ events = << >>
    /\ stderr = << >>
    /\ harness = h

\* The same when no harness is looked at.
InitMachine == InitMachineWith(NoHarness)

\* A workload without instructions, image loads and routine calls.
InitNoTarget ==
    /\ program = {}
    /\ instructionsLeft = 0
    /\ imagesLeft = 0
    /\ callsLeft = 0

Init ==
    /\ InitProgram
    /\ appendsLeft = MaxAppendsAll
    /\ markersLeft = MaxMarkersAll
    /\ InitMainDefault
    /\ InitMachine
    /\ InitNoTarget

InitWriter ==
    /\ InitProgram
    /\ appendsLeft = MaxAppends
    /\ markersLeft = MaxMarkers
    /\ InitMainDefault
    /\ InitMachine
    /\ InitNoTarget

Running(t) == status = "running" /\ started[t] /\ ~exited[t]

----------------------------------------------------------------------------
(* Thread callbacks *)

\* ThreadStart(tid, ctxt, ...): thread 0 is the main thread and starts first.
ThreadStart(t) ==
    /\ status = "running"
    /\ ~started[t]
    /\ t # 0 => Running(0)
    /\ started' = [started EXCEPT ![t] = TRUE]
    /\ IF t = 0
       THEN LET w == OpenOutputFile(Writer, PrefixFileName) IN
            /\ SetWriter(w)
            /\ status' = StatusAfter(w.result)
            /\ tlsWriter' = [tlsWriter EXCEPT ![t] = WriterAddr]
            /\ nextReg' = [nextReg EXCEPT ![t] = Begin(WriterAddr)]
            /\ endReg' = [endReg EXCEPT ![t] = End(WriterAddr)]
       ELSE /\ nextReg' = [nextReg EXCEPT ![t] = NULL]
            /\ endReg' = [endReg EXCEPT ![t] = NULL]
            /\ UNCHANGED <<status, tlsWriter, writerVars>>
    /\ UNCHANGED <<exited, pc, entries, histVars, due, extVars>>

\* ThreadFini that deletes the writer of thread 0 without saving the buffer.
ThreadFini_NoFlush(t) ==
    /\ Running(t)
    /\ pc[t] = "ready"
    /\ due[t] = << >>
    /\ exited' = [exited EXCEPT ![t] = TRUE]
    /\ IF t # 0
       THEN UNCHANGED <<status, tlsWriter, writerVars>>
       ELSE LET w2 == StreamClose(Writer)
            IN  /\ SetWriter(w2)
                /\ status' = StatusAfter(w2.result)
                /\ tlsWriter' = [tlsWriter EXCEPT ![t] = NULL]
    /\ UNCHANGED <<started, nextReg, endReg, pc, entries, histVars, due, extVars>>

\* ThreadFini(tid, ctxt, ...), with ~TraceWriter() for thread 0.
ThreadFini(t) ==
    /\ Running(t)
    /\ pc[t] = "ready"
    /\ due[t] = << >>
    /\ exited' = [exited EXCEPT ![t] = TRUE]
    /\ IF t # 0
       THEN UNCHANGED <<status, tlsWriter, writerVars>>
       ELSE LET w1 == WriteBufferToFile(Writer, nextReg[t])
                w2 == IF w1.result = "ok" THEN StreamClose(w1) ELSE w1
            IN  /\ SetWriter(w2)
                /\ status' = StatusAfter(w2.result)
                /\ tlsWriter' = [tlsWriter EXCEPT ![t] = NULL]
    /\ UNCHANGED <<started, nextReg, endReg, pc, entries, histVars, due, extVars>>

----------------------------------------------------------------------------
(* Runtime hooks.  An instrumented instruction or routine entry runs an      *)
(* insertion call followed by a buffer check; pc[t] says which one is due.   *)

\* *nextEntry of thread t, the slot content an Insert*Entry helper starts from.
AtNext(t) ==
    IF IsSlotAddr(nextReg[t]) THEN entries[SlotOf(nextReg[t])] ELSE ZeroEntry

\* The store `nextEntry->... = ...; return ++nextEntry;` of an Insert*Entry
\* helper, executed by thread t; stored is the slot content after the store.
\* A store through a pointer that is not a slot of the buffer is undefined:
\* it faults, or it goes unnoticed and the incremented pointer is returned.
StoreEntry(t, stored) ==
    LET p == nextReg[t] IN
    IF IsSlotAddr(p)
    THEN LET e == [stored EXCEPT !.seq = nAppends + 1] IN
         /\ appendsLeft > 0
         /\ appendsLeft' = appendsLeft - 1
         /\ entries' = [entries EXCEPT ![SlotOf(p)] = e]
         /\ nextReg' = [nextReg EXCEPT ![t] = PtrInc(p)]
         /\ nAppends' = nAppends + 1
         /\ tcLog' = IF phase = "testcase" THEN Append(tcLog, e) ELSE tcLog
         /\ idleSeqs' = IF phase = "idle" THEN idleSeqs \cup {nAppends + 1} ELSE idleSeqs
         /\ UNCHANGED status
    ELSE /\ \E outcome \in {"fault", "undefined"} :
              /\ status' = outcome
              /\ nextReg' = [nextReg EXCEPT ![t] = IF outcome = "undefined" THEN PtrInc(p) ELSE p]
         /\ UNCHANGED <<entries, appendsLeft, nAppends, tcLog, idleSeqs>>

\* An insertion call that is skipped.
SkipEntry == UNCHANGED <<status, entries, nextReg, appendsLeft, nAppends, tcLog, idleSeqs>>

\* What every insertion hook leaves alone.  When Pin makes the call as one of
\* the calls due at an instruction or routine, it is the first of them.
InsertFrame(t, pcAfter) ==
    /\ Running(t)
    /\ pc[t] = "ready"
    /\ pc' = [pc EXCEPT ![t] = pcAfter]
    /\ due' = [due EXCEPT ![t] = IF @ = << >> THEN @ ELSE Tail(@)]
    /\ UNCHANGED <<started, exited, endReg, tlsWriter, writerVars>>
    /\ UNCHANGED <<markersLeft, phase, firstStartAt, tcId, tcFlushes, nEnded>>
    /\ UNCHANGED extVars

\* INS_InsertIfCall(CheckNextTraceEntryPointerValid) / INS_InsertThenCall(Insert*Entry)
IfValidThenStore(t, stored) ==
    IF CheckNextTraceEntryPointerValid(nextReg[t]) # 0
    THEN StoreEntry(t, stored)
    ELSE SkipEntry

\* The helpers that begin with `if(nextEntry == NULL) return nextEntry;`
NullCheckedStore(t, stored) ==
    IF nextReg[t] = NULL
    THEN SkipEntry
    ELSE StoreEntry(t, stored)

\* Memory read of an instruction in an interesting image.
HookMemoryRead(t) ==
    \E ip \in InsAddrs, ea \in MemAddrs, size \in AccessSizes :
        /\ InsertFrame(t, "checkIf")
        /\ IfValidThenStore(t, InsertMemoryReadEntry(AtNext(t), ip, ea, size))

\* Memory write of an instruction in an interesting image.
HookMemoryWrite(t) ==
    \E ip \in InsAddrs, ea \in MemAddrs, size \in AccessSizes :
        /\ InsertFrame(t, "checkIf")
        /\ IfValidThenStore(t, InsertMemoryWriteEntry(AtNext(t), ip, ea, size))

\* call: IARG_INST_PTR, IARG_BRANCH_TARGET_ADDR, IARG_BOOL 1, BranchTypeCall
CallHookWith(t, ip, target) ==
    /\ InsertFrame(t, "checkIf")
    /\ IfValidThenStore(t, InsertBranchEntry(AtNext(t), ip, target, 1, BranchTypeCall))

HookCall(t) ==
    \E ip \in InsAddrs, target \in TargetAddrs : CallHookWith(t, ip, target)

\* jmp / jcc: IARG_INST_PTR, IARG_BRANCH_TARGET_ADDR, IARG_BRANCH_TAKEN, BranchTypeJump
JumpHookWith(t, ip, target, taken) ==
    /\ InsertFrame(t, "checkIf")
    /\ IfValidThenStore(t, InsertBranchEntry(AtNext(t), ip, target, taken, BranchTypeJump))

HookJump(t) ==
    \E ip \in InsAddrs, target \in TargetAddrs, taken \in TakenVals :
        JumpHookWith(t, ip, target, taken)

\* ret, on the taken branch: IARG_INST_PTR, IARG_CONTEXT
RetHookWith(t, ip, retAddress) ==
    /\ InsertFrame(t, "checkIf")
    /\ IfValidThenStore(t, InsertRetBranchEntry(AtNext(t), ip, retAddress))

HookRet(t) ==
    \E ip \in InsAddrs, retAddress \in TargetAddrs : RetHookWith(t, ip, retAddress)

\* Stack pointer tracking of call, ret and other writers of RSP.
HookStackPointerModification(t) ==
    \E ip \in InsAddrs, sp \in StackPtrs, flags \in {StackIsCall, StackIsReturn, StackIsOther} :
        /\ InsertFrame(t, "checkIf")
        /\ IfValidThenStore(t, InsertStackPointerModificationEntry(AtNext(t), ip, sp, flags))

\* Entry of malloc / realloc / RtlAllocateHeap
HookHeapAllocSize(t) ==
    \E size \in AllocSizes :
        /\ InsertFrame(t, "checkCall")
        /\ NullCheckedStore(t, InsertHeapAllocSizeParameterEntry(AtNext(t), size))

\* Return of malloc / calloc / realloc / RtlAllocateHeap
HookHeapAllocReturn(t) ==
    \E addr \in HeapAddrs :
        /\ InsertFrame(t, "checkCall")
        /\ NullCheckedStore(t, InsertHeapAllocAddressReturnEntry(AtNext(t), addr))

\* Entry of free / RtlFreeHeap
HookHeapFree(t) ==
    \E addr \in HeapAddrs :
        /\ InsertFrame(t, "checkCall")
        /\ NullCheckedStore(t, InsertHeapFreeAddressParameterEntry(AtNext(t), addr))

\* Entry of PinNotifyStackPointer: the helper is called without a guard.
HookStackPointerInfo(t) ==
    \E spMin \in StackMins, spMax \in StackMaxs :
        /\ InsertFrame(t, "checkCall")
        /\ StoreEntry(t, InsertStackPointerInfoEntry(AtNext(t), spMin, spMax))

----------------------------------------------------------------------------
(* Buffer check *)

\* CheckBufferAndStore(nextEntry, entryBufferEnd, tid): the writer state after
\* the call and the returned pointer.
CheckBufferAndStore(w, nextEntry, entryBufferEnd, tid) ==
    IF tid # 0 \/ nextEntry = NULL \/ entryBufferEnd = NULL
    THEN [w |-> w, ret |-> nextEntry, flushed |-> FALSE]
    ELSE IF CheckBufferFull(nextEntry, entryBufferEnd)
         THEN [w |-> WriteBufferToFile(w, entryBufferEnd),
               ret |-> Begin(tlsWriter[tid]),
               flushed |-> TRUE]
         ELSE [w |-> w, ret |-> nextEntry, flushed |-> FALSE]

\* The effect of a CheckBufferAndStore call of thread t on the state.
DoCheckBufferAndStore(t) ==
    LET r == CheckBufferAndStore(Writer, nextReg[t], endReg[t], t) IN
    /\ SetWriter(r.w)
    /\ status' = StatusAfter(r.w.result)
    /\ nextReg' = [nextReg EXCEPT ![t] = IF r.w.result = "ok" THEN r.ret ELSE @]
    /\ tcFlushes' = IF r.flushed /\ phase = "testcase" THEN tcFlushes + 1 ELSE tcFlushes

CheckFrame(t) ==
    /\ status = "running"
    /\ pc' = [pc EXCEPT ![t] = "ready"]
    /\ UNCHANGED <<started, exited, endReg, tlsWriter, entries>>
    /\ UNCHANGED <<appendsLeft, markersLeft, nAppends, phase, firstStartAt, idleSeqs, tcId, tcLog, nEnded>>
    /\ UNCHANGED <<due, extVars>>

\* INS_InsertIfCall(CheckBufferFull) / INS_InsertThenCall(CheckBufferAndStore)
CheckIfThen(t) ==
    /\ pc[t] = "checkIf"
    /\ CheckFrame(t)
    /\ IF CheckBufferFull(nextReg[t], endReg[t])
       THEN DoCheckBufferAndStore(t)
       ELSE UNCHANGED <<status, nextReg, tcFlushes, writerVars>>

\* RTN_InsertCall(CheckBufferAndStore)
CheckCall(t) ==
    /\ pc[t] = "checkCall"
    /\ CheckFrame(t)
    /\ DoCheckBufferAndStore(t)

----------------------------------------------------------------------------
(* Testcase markers *)

\* A member function called through a null TraceWriter pointer is undefined:
\* it faults, or it goes unnoticed and the hook returns Begin() of that object.
NullWriterCall(t) ==
    /\ \E outcome \in {"fault", "undefined"} :
          /\ status' = outcome
          /\ nextReg' = [nextReg EXCEPT ![t] = IF outcome = "undefined" THEN Begin(NULL) ELSE @]
    /\ UNCHANGED <<writerVars, histVars>>

\* The marker routines are entered between two instructions of the harness,
\* outside the routines of the target.
MarkerFrame(t) ==
    /\ Running(t)
    /\ pc[t] = "ready"
    /\ due[t] = << >>
    /\ callStack = << >>
    /\ UNCHANGED <<started, exited, endReg, tlsWriter, pc, entries>>
    /\ UNCHANGED <<due, extVars>>

\* TestcaseStart(newTestcaseId, tid, nextEntry), at the entry of PinNotifyTestcaseStart
HookTestcaseStart(t) ==
    \E newTestcaseId \in TestcaseIds :
        /\ MarkerFrame(t)
        /\ IF tlsWriter[t] = NULL
           THEN NullWriterCall(t)
           ELSE LET w == TestcaseStartW(Writer, newTestcaseId, nextReg[t]) IN
                /\ markersLeft > 0
                /\ SetWriter(w)
                /\ status' = StatusAfter(w.result)
                /\ nextReg' = [nextReg EXCEPT ![t] = IF w.result = "ok" THEN Begin(tlsWriter[t]) ELSE @]
                /\ markersLeft' = markersLeft - 1
                /\ IF w.result = "ok"
                   THEN /\ phase' = "testcase"
                        /\ firstStartAt' = IF firstStartAt = -1 THEN nAppends ELSE firstStartAt
                        /\ tcId' = newTestcaseId
                        /\ tcLog' = << >>
                        /\ tcFlushes' = 0
                   ELSE UNCHANGED <<phase, firstStartAt, tcId, tcLog, tcFlushes>>
                /\ UNCHANGED <<appendsLeft, nAppends, idleSeqs, nEnded>>

\* TestcaseEnd(nextEntry, tid), at the entry of PinNotifyTestcaseEnd
HookTestcaseEnd(t) ==
    /\ MarkerFrame(t)
    /\ IF tlsWriter[t] = NULL
       THEN NullWriterCall(t)
       ELSE LET w == TestcaseEndW(Writer, nextReg[t]) IN
            /\ markersLeft > 0
            /\ SetWriter(w)
            /\ status' = StatusAfter(w.result)
            /\ nextReg' = [nextReg EXCEPT ![t] = IF w.result = "ok" THEN Begin(tlsWriter[t]) ELSE @]
            /\ markersLeft' = markersLeft - 1
            /\ phase' = IF w.result = "ok" THEN "idle" ELSE phase
            /\ nEnded' = IF w.result = "ok" /\ phase = "testcase" THEN nEnded + 1 ELSE nEnded
            /\ UNCHANGED <<appendsLeft, nAppends, firstStartAt, idleSeqs, tcId, tcLog, tcFlushes>>

----------------------------------------------------------------------------
(* Image loads *)

\* InstrumentImage(img, v), for an image the loader reports.  The loader
\* reports an image between two instructions of the target.
InstrumentImage ==
    /\ status = "running"
    /\ imagesLeft > 0
    /\ \A t \in Threads : pc[t] = "ready" /\ due[t] = << >>
    /\ \E img \in ImageFiles :
          LET interesting == IsInterestingImage(interestingImages, img.name) IN
          /\ \A k \in 1..Len(loads) : loads[k].name # img.name
          \* TraceWriter::WriteImageLoadData
          /\ prefixData' = IF ~prefixMode
                           THEN prefixData
                           ELSE Append(prefixData,
                                       ImageLoadLine(interesting, img.low, img.high, img.name))
          /\ images' = Append(images, ImageData(interesting, img.name, img.low, img.high))
          /\ loads' = Append(loads, [name |-> img.name, low |-> img.low, high |-> img.high,
                                     prefixMode |-> prefixMode])
    /\ imagesLeft' = imagesLeft - 1
    /\ UNCHANGED <<progVars, histVars, due, configVars, cpuVars, encVars, insVars, allocVars, harnessVars>>

----------------------------------------------------------------------------
(* Instructions of the target on thread 0.  A block is one instruction; the  *)
(* calls InstrumentTrace has inserted at it become due when it is reached.   *)

\* Is the address inside an image, and has the loader reported that image?
InImageFile(address) == \E img \in ImageFiles : img.low <= address /\ address <= img.high

InLoadedImage(address) == \E k \in 1..Len(images) : ContainsBasicBlock(images[k], address, address)

\* std::cerr holds the message of InstrumentTrace for the block at the address.
Warned(address) == \E k \in 1..Len(stderr) : stderr[k] = address

\* Thread 0 reaches the instruction at an address of the program, with the
\* operands and register values of this execution.  Pin instruments a block
\* when the target first reaches it, which is when InstrumentTrace writes its
\* message about the block.
ExecIns ==
    /\ Running(0)
    /\ pc[0] = "ready"
    /\ due[0] = << >>
    /\ instructionsLeft > 0
    /\ instructionsLeft' = instructionsLeft - 1
    /\ \E address \in program :
          LET ins == InsAt(address)
              interesting == IsInterestingBlock(images, address, address)
              calls == InstrumentIns(ins, interesting, useFixedRandomNumber,
                                     enableStackAllocationTracking)
              order == RuntimeOrder(calls)
          IN  /\ InImageFile(address) => InLoadedImage(address)
              /\ \E target \in TargetAddrs, ea \in MemAddrs, ea2 \in MemAddrs2,
                    size \in AccessSizes, sp \in StackPtrs,
                    taken \in (IF ins.IsBranch THEN TakenVals ELSE {1}) :
                     due' = [due EXCEPT ![0] =
                                [k \in 1..Len(order) |->
                                    [call |-> order[k], ip |-> address, target |-> target,
                                     taken |-> taken, ea |-> ea, ea2 |-> ea2,
                                     size |-> size, sp |-> sp]]]
              /\ curIns' = [address |-> address, interesting |-> interesting, calls |-> calls,
                            at |-> nAppends]
              /\ stderr' = IF CannotResolveImage(images, address, address) /\ ~Warned(address)
                           THEN Append(stderr, address)
                           ELSE stderr
              /\ IF ins.Opcode = "CPUID"
                 THEN \E leaf \in CpuIdLeaves, subleaf \in CpuIdSubleaves, other \in OtherRegisterValues :
                         regs' = [EAX |-> leaf, EBX |-> other, ECX |-> subleaf, EDX |-> other]
                 ELSE UNCHANGED regs
    /\ UNCHANGED <<progVars, histVars, configVars, encVars, imgVars, allocVars, harnessVars>>
    /\ UNCHANGED <<rdest, cpuIdEaxInputReg, cpuIdEcxInputReg, cpuIn>>

\* InstrumentTrace reaches a basic block with the given addresses of its first
\* and its last instruction, and searches its image; curIns records the block
\* and the outcome of the search.
InstrumentBlock ==
    /\ status = "running"
    /\ instructionsLeft > 0
    /\ instructionsLeft' = instructionsLeft - 1
    /\ \E headAddress \in BlockAddrs, tailAddress \in BlockAddrs :
          /\ headAddress <= tailAddress
          /\ curIns' = [address |-> headAddress, tail |-> tailAddress,
                        interesting |-> IsInterestingBlock(images, headAddress, tailAddress),
                        calls |-> << >>]
          /\ stderr' = IF CannotResolveImage(images, headAddress, tailAddress) /\ ~Warned(headAddress)
                       THEN Append(stderr, headAddress)
                       ELSE stderr
    /\ UNCHANGED <<progVars, histVars, due, configVars, cpuVars, encVars, imgVars, allocVars, harnessVars>>

\* The analysis functions that store a trace entry.
InsertFunctions ==
    {"InsertBranchEntry", "InsertRetBranchEntry", "InsertStackPointerModificationEntry",
     "InsertMemoryReadEntry", "InsertMemoryWriteEntry"}

\* The slot content after the Insert*Entry call d, bound to its IARG values,
\* has stored into a slot that held e.
TraceEntryOf(d, e) ==
    CASE d.call.fn = "InsertBranchEntry" ->
             InsertBranchEntry(e, d.ip, d.target,
                               IF d.call.arg = BranchTypeCall THEN 1 ELSE d.taken, d.call.arg)
      [] d.call.fn = "InsertRetBranchEntry" ->
             InsertRetBranchEntry(e, d.ip, d.target)
      [] d.call.fn = "InsertStackPointerModificationEntry" ->
             InsertStackPointerModificationEntry(e, d.ip, d.sp, d.call.arg)
      [] d.call.fn = "InsertMemoryReadEntry" ->
             InsertMemoryReadEntry(e, d.ip, IF d.call.arg = 2 THEN d.ea2 ELSE d.ea, d.size)
      [] d.call.fn = "InsertMemoryWriteEntry" ->
             InsertMemoryWriteEntry(e, d.ip, d.ea, d.size)

\* Pin makes the Insert*Entry call that is due at the instruction of thread 0.
RunInsertCall ==
    /\ due[0] # << >>
    /\ Head(due[0]).call.fn \in InsertFunctions
    /\ InsertFrame(0, "checkIf")
    /\ IfValidThenStore(0, TraceEntryOf(Head(due[0]), AtNext(0)))

\* What a step of thread 0 that is no trace hook leaves alone.
MachineFrame ==
    /\ Running(0)
    /\ pc[0] = "ready"
    /\ due[0] # << >>
    /\ due' = [due EXCEPT ![0] = Tail(@)]
    /\ UNCHANGED <<progVars, histVars, configVars, encVars, imgVars, insVars, allocVars, harnessVars>>

\* The instruction itself: CPUID and RDRAND write the values of the host.
ExecuteInstruction ==
    /\ MachineFrame
    /\ Head(due[0]).call.fn = "execute"
    /\ LET ins == InsAt(Head(due[0]).ip) IN
       IF ins.Opcode = "CPUID"
       THEN /\ \E host \in HostCpuIdOutputs :
                  /\ regs' = host
                  /\ cpuIn' = [op |-> "cpuid", leaf |-> regs.EAX, subleaf |-> regs.ECX,
                               before |-> regs, host |-> host]
            /\ UNCHANGED <<rdest, cpuIdEaxInputReg, cpuIdEcxInputReg>>
       ELSE IF ins.Opcode = "RDRAND"
       THEN /\ \E host \in HostRandomNumbers :
                  /\ rdest' = host
                  /\ cpuIn' = [op |-> "rdrand", host |-> host]
            /\ UNCHANGED <<regs, cpuIdEaxInputReg, cpuIdEcxInputReg>>
       ELSE UNCHANGED cpuVars

\* PIN_SetContextReg(ctxt, _cpuIdEaxInputReg, EAX) and (ctxt, _cpuIdEcxInputReg, ECX)
SaveCpuIdInput ==
    /\ MachineFrame
    /\ Head(due[0]).call.fn = "PIN_SetContextReg"
    /\ IF Head(due[0]).call.arg = "EAX"
       THEN cpuIdEaxInputReg' = regs.EAX /\ UNCHANGED cpuIdEcxInputReg
       ELSE cpuIdEcxInputReg' = regs.ECX /\ UNCHANGED cpuIdEaxInputReg
    /\ UNCHANGED <<regs, rdest, cpuIn>>

\* ChangeCpuId on the tool registers and on references to EAX, EBX, ECX, EDX
RunChangeCpuId ==
    /\ MachineFrame
    /\ Head(due[0]).call.fn = "ChangeCpuId"
    /\ regs' = ChangeCpuId(emulateCpuModel, emulatedCpuModelInfo,
                           cpuIdEaxInputReg, cpuIdEcxInputReg, regs)
    /\ UNCHANGED <<rdest, cpuIdEaxInputReg, cpuIdEcxInputReg, cpuIn>>

\* ChangeRandomNumber(outputReg): *outputReg = _fixedRandomNumber
RunChangeRandomNumber ==
    /\ MachineFrame
    /\ Head(due[0]).call.fn = "ChangeRandomNumber"
    /\ rdest' = fixedRandomNumber
    /\ UNCHANGED <<regs, cpuIdEaxInputReg, cpuIdEcxInputReg, cpuIn>>

\* A call of cpuid_encode_family
EncodeFamily ==
    /\ \E family \in Families, model \in Models, stepping \in Steppings :
          /\ encIn' = <<family, model, stepping>>
          /\ encOut' = cpuid_encode_family(family, model, stepping)
    /\ UNCHANGED <<progVars, histVars, due, configVars, cpuVars, imgVars, insVars, allocVars, harnessVars>>

----------------------------------------------------------------------------
(* Routines of the target on thread 0.  The routines of libc.so that         *)
(* InstrumentImage has instrumented are malloc, calloc, realloc and free;    *)
(* "impl" is a routine without instrumentation.  A call inserted with        *)
(* IPOINT_BEFORE runs when the entry of the routine is reached, by a call or *)
(* by a jump; a call inserted with IPOINT_AFTER runs at a ret instruction of *)
(* the routine.                                                              *)

Allocators == {"malloc", "calloc", "realloc"}

\* The routines of the target: the allocator functions of libc, a routine of
\* the target's own, and PinNotifyAllocation of the harness template.
Routines == Allocators \cup {"free", "impl", "PinNotifyAllocation"}

\* The arguments <<arg0, arg1>> a routine is entered with.
ArgumentsOf(rtn) ==
    CASE rtn = "malloc" -> AllocSizes \X {0}
      [] rtn = "calloc" -> CallocArguments
      [] rtn = "realloc" -> HeapAddrs \X AllocSizes
      [] rtn = "free" -> HeapAddrs \X {0}
      [] rtn = "PinNotifyAllocation" -> HeapAddrs \X AllocSizes
      [] OTHER -> {<<0, 0>>}

RoutineCall(fn, a, b) == [call |-> AnalysisCall(fn, "RTN", 0), a |-> a, b |-> b]

\* RTN_InsertCall(rtn, IPOINT_BEFORE, ...) of InstrumentImage.  The routines
\* InstrumentImage looks up by name are the three markers and the allocator
\* functions; there is no lookup of PinNotifyAllocation.
EntryCalls(rtn, args) ==
    CASE rtn = "malloc" -> <<RoutineCall("InsertHeapAllocSizeParameterEntry", args[1], 0)>>
      [] rtn = "calloc" -> <<RoutineCall("InsertCallocSizeParameterEntry", args[1], args[2])>>
      [] rtn = "realloc" -> <<RoutineCall("InsertHeapAllocSizeParameterEntry", args[2], 0)>>
      [] rtn = "free" -> <<RoutineCall("InsertHeapFreeAddressParameterEntry", args[1], 0)>>
      [] OTHER -> << >>

\* The routine hooks without the IPOINT_AFTER calls of malloc.
ExitCalls_NoMalloc(rtn, returnValue) ==
    IF rtn \in {"calloc", "realloc"}
    THEN <<RoutineCall("InsertHeapAllocAddressReturnEntry", returnValue, 0)>>
    ELSE << >>

\* RTN_InsertCall(rtn, IPOINT_AFTER, ...) of InstrumentImage
ExitCalls(rtn, returnValue) ==
    IF rtn \in Allocators
    THEN <<RoutineCall("InsertHeapAllocAddressReturnEntry", returnValue, 0)>>
    ELSE << >>

\* TraceWriter::InsertCallocSizeParameterEntry
InsertCallocSizeParameterEntry(e, count, size) ==
    InsertHeapAllocSizeParameterEntry(e, FromUINT64(Mul64(count, size)))

\* The number of the running testcase, 0 outside the testcases.
CurrentTestcase == IF phase = "testcase" THEN nEnded + 1 ELSE 0

TargetFrame ==
    /\ Running(0)
    /\ pc[0] = "ready"
    /\ due[0] = << >>
    /\ callsLeft > 0
    /\ callsLeft' = callsLeft - 1
    /\ UNCHANGED <<progVars, histVars, configVars, cpuVars, encVars, imgVars, insVars, harnessVars>>

\* The target calls a routine.
TargetCall ==
    /\ TargetFrame
    /\ Len(callStack) < MaxCallDepth
    /\ \E rtn \in Routines : \E args \in ArgumentsOf(rtn) :
          /\ callStack' = Append(callStack, [entered |-> rtn, code |-> rtn])
          /\ due' = [due EXCEPT ![0] = EntryCalls(rtn, args)]
          /\ events' = Append(events, [ev |-> "call", rtn |-> rtn, args |-> args,
                                       depth |-> Len(callStack) + 1, tc |-> CurrentTestcase,
                                       at |-> nAppends])

\* The routine on top jumps to the entry of another routine (a tail call).
TargetTailJump ==
    /\ TargetFrame
    /\ callStack # << >>
    /\ \E rtn \in Routines : \E args \in ArgumentsOf(rtn) :
          /\ rtn # callStack[Len(callStack)].code
          /\ callStack' = [callStack EXCEPT ![Len(callStack)].code = rtn]
          /\ due' = [due EXCEPT ![0] = EntryCalls(rtn, args)]
          /\ events' = Append(events, [ev |-> "jmp", rtn |-> rtn, args |-> args,
                                       depth |-> Len(callStack), tc |-> CurrentTestcase,
                                       at |-> nAppends])

\* The routine on top executes a ret, with the return value in RAX.
TargetReturn ==
    /\ TargetFrame
    /\ callStack # << >>
    /\ \E returnValue \in HeapAddrs :
          LET top == callStack[Len(callStack)] IN
          /\ callStack' = SubSeq(callStack, 1, Len(callStack) - 1)
          /\ due' = [due EXCEPT ![0] = ExitCalls(top.code, returnValue)]
          /\ events' = Append(events, [ev |-> "ret", rtn |-> top.code, entered |-> top.entered,
                                       value |-> returnValue,
                                       depth |-> Len(callStack), tc |-> CurrentTestcase,
                                       at |-> nAppends])

\* The entry a routine hook stores into a slot that held e.
RoutineEntryOf(d, e) ==
    CASE d.call.fn = "InsertHeapAllocSizeParameterEntry" ->
             InsertHeapAllocSizeParameterEntry(e, d.a)
      [] d.call.fn = "InsertCallocSizeParameterEntry" ->
             InsertCallocSizeParameterEntry(e, d.a, d.b)
      [] d.call.fn = "InsertHeapAllocAddressReturnEntry" ->
             InsertHeapAllocAddressReturnEntry(e, d.a)
      [] d.call.fn = "InsertHeapFreeAddressParameterEntry" ->
             InsertHeapFreeAddressParameterEntry(e, d.a)

\* Pin makes the call that is due at the routine entry or ret of thread 0.
RunRoutineCall ==
    /\ due[0] # << >>
    /\ Head(due[0]).call.ipoint = "RTN"
    /\ InsertFrame(0, "checkCall")
    /\ NullCheckedStore(0, RoutineEntryOf(Head(due[0]), AtNext(0)))

----------------------------------------------------------------------------
(* The harness, step by step *)

\* The harness is a process of its own: its steps leave the tool alone.
HarnessFrame == UNCHANGED <<progVars, histVars, due, configVars, cpuVars, encVars, imgVars, insVars, allocVars>>

\* main() calls TraceFunc(): ReadAndSendStackPointer(), then InitTarget() in
\* PinTracerWrapper.cpp and PinNotifyAllocation(&errno, 8) in the template.
TraceFuncEntry ==
    /\ harness.kind \in HarnessKinds
    /\ harness.pc = "main"
    /\ HarnessFrame
    /\ harness' = [harness EXCEPT
          !.pc = "loop",
          !.stackMin = StackBounds(harness.kind, harness.stackBase, harness.rlim_cur).stackMin,
          !.stackMax = StackBounds(harness.kind, harness.stackBase, harness.rlim_cur).stackMax,
          !.calls = @ \o <<HarnessCall("PinNotifyStackPointer", 0, << >>),
                           IF harness.kind = "template"
                           THEN HarnessCall("PinNotifyAllocation", 8, << >>)
                           ELSE HarnessCall("InitTarget", 0, << >>)>>]

\* The tests of the command with the one for 'e' left out.
Dispatch_NoExit(command) == IF command = "t" THEN "testcase" ELSE "loop"

\* if(command == 'e') break; if(command == 't') { ... }: where the loop goes on.
Dispatch(command) ==
    CASE command = "e" -> "return"
      [] command = "t" -> "testcase"
      [] OTHER -> "loop"

\* The head of the loop: fgets, sscanf, and the tests of the command.  command
\* and testcaseId are variables of the loop body: what sscanf does not assign
\* is indeterminate, and the test of an indeterminate command is undefined.
ReadCommand ==
    /\ harness.pc = "loop"
    /\ HarnessFrame
    /\ LET f == Fgets(harness.inputBuffer, harness.stdin)
           s == Sscanf(f.inputBuffer)
       IN  harness' = [harness EXCEPT
              !.stdin = f.stdin,
              !.inputBuffer = f.inputBuffer,
              !.assigned = s.assigned,
              !.command = s.command,
              !.testcaseId = s.testcaseId,
              !.pc = IF s.assigned = 0 THEN "undefined" ELSE Dispatch(s.command)]

\* OpenTestcase without the test of targetInitialized.
OpenTestcase_InitEachTime ==
    /\ harness.pc = "testcase"
    /\ HarnessFrame
    /\ LET f == Fgets(harness.inputBuffer, harness.stdin)
           name == StripNewline(f.inputBuffer)
           init == harness.kind = "template"
       IN  IF name \notin ExistingFiles
           THEN harness' = [harness EXCEPT
                   !.stdin = f.stdin,
                   !.inputBuffer = name,
                   !.errors = Append(@, name),
                   !.pc = "loop"]
           ELSE harness' = [harness EXCEPT
                   !.stdin = f.stdin,
                   !.inputBuffer = name,
                   !.inputFile = name,
                   !.targetInitialized = IF init THEN 1 ELSE @,
                   !.calls = @ \o (IF init THEN <<HarnessCall("InitTarget", 0, name)>> ELSE << >>)
                               \o (IF harness.assigned < 2 THEN << >>
                                   ELSE <<HarnessCall("PinNotifyTestcaseStart", harness.testcaseId, << >>)>>),
                   !.pc = IF harness.assigned < 2 THEN "undefined" ELSE "target"]

\* command == 't': the file name is read and the file opened; without the
\* file the error is printed and the loop continues.  The template calls
\* InitTarget with the first file that could be opened.  The call of
\* PinNotifyTestcaseStart with an indeterminate testcaseId is undefined.
OpenTestcase ==
    /\ harness.pc = "testcase"
    /\ HarnessFrame
    /\ LET f == Fgets(harness.inputBuffer, harness.stdin)
           name == StripNewline(f.inputBuffer)
           init == harness.kind = "template" /\ harness.targetInitialized = 0
       IN  IF name \notin ExistingFiles
           THEN harness' = [harness EXCEPT
                   !.stdin = f.stdin,
                   !.inputBuffer = name,
                   !.errors = Append(@, name),
                   !.pc = "loop"]
           ELSE harness' = [harness EXCEPT
                   !.stdin = f.stdin,
                   !.inputBuffer = name,
                   !.inputFile = name,
                   !.targetInitialized = IF init THEN 1 ELSE @,
                   !.calls = @ \o (IF init THEN <<HarnessCall("InitTarget", 0, name)>> ELSE << >>)
                               \o (IF harness.assigned < 2 THEN << >>
                                   ELSE <<HarnessCall("PinNotifyTestcaseStart", harness.testcaseId, << >>)>>),
                   !.pc = IF harness.assigned < 2 THEN "undefined" ELSE "target"]

\* RunTarget(inputFile)
RunTarget ==
    /\ harness.pc = "target"
    /\ HarnessFrame
    /\ harness' = [harness EXCEPT
          !.calls = Append(@, HarnessCall("RunTarget", 0, harness.inputFile)),
          !.pc = "end"]

\* PinNotifyTestcaseEnd(); fclose(inputFile)
EndTestcase ==
    /\ harness.pc = "end"
    /\ HarnessFrame
    /\ harness' = [harness EXCEPT
          !.calls = Append(@, HarnessCall("PinNotifyTestcaseEnd", 0, << >>)),
          !.inputFile = << >>,
          !.pc = "loop"]

\* command == 'e': the loop is left, TraceFunc returns and main returns 0.
MainReturn ==
    /\ harness.pc = "return"
    /\ HarnessFrame
    /\ harness' = [harness EXCEPT !.pc = "exited", !.exitCode = 0]

----------------------------------------------------------------------------
(* The fuzzing wrapper: main() of FuzzingWrapper.cpp *)

\* int retryCount = 6
PipeRetries == 6

\* The wrapper at the entry of main(): argv[1] is the mode, and the named
\* pipe of the parent process comes into being after `delay' attempts to open it.
WrapperAtMain(mode, delay) ==
    [NoHarness EXCEPT !.kind = "FuzzingWrapper", !.pc = "main", !.mode = mode,
                      !.pipeDelay = delay, !.pipeFailures = delay]

\* int mode = atoi(argv[1]); if(mode == 1) { int retryCount = 6; ...
WrapperMain ==
    /\ harness.kind = "FuzzingWrapper"
    /\ harness.pc = "main"
    /\ HarnessFrame
    /\ harness' = IF harness.mode = 1
                  THEN [harness EXCEPT !.retryCount = PipeRetries, !.pc = "createPipe"]
                  ELSE [harness EXCEPT !.pc = "fuzz"]

\* The head of the loop: _pipe = CreateFileA(...), tested against
\* INVALID_HANDLE_VALUE.
CreatePipe ==
    /\ harness.pc = "createPipe"
    /\ HarnessFrame
    /\ harness' = IF harness.pipeFailures = 0
                  THEN [harness EXCEPT
                           !.calls = Append(@, HarnessCall("CreateFileA", 0, << >>)),
                           !.pipe = "pipe",
                           !.pc = "fuzz"]
                  ELSE [harness EXCEPT
                           !.calls = Append(@, HarnessCall("CreateFileA", 0, << >>)),
                           !.pipeFailures = @ - 1,
                           !.pc = "retry"]

\* RetryOrGiveUp with the retry counted before the test.
RetryOrGiveUp_CountFirst ==
    /\ harness.pc = "retry"
    /\ HarnessFrame
    /\ harness' = IF harness.retryCount - 1 = 0
                  THEN [harness EXCEPT
                           !.retryCount = @ - 1,
                           !.errors = Append(@, "Error: Could not create pipe"),
                           !.exitCode = -1,
                           !.pc = "exited"]
                  ELSE [harness EXCEPT
                           !.retryCount = @ - 1,
                           !.calls = Append(@, HarnessCall("Sleep", 500, << >>)),
                           !.pc = "createPipe"]

\* The body of the loop: with retryCount == 0 the error line is appended to
\* FuzzingWrapper.error.txt and main returns -1; else --retryCount, Sleep(500)
\* and the next attempt.
RetryOrGiveUp ==
    /\ harness.pc = "retry"
    /\ HarnessFrame
    /\ harness' = IF harness.retryCount = 0
                  THEN [harness EXCEPT
                           !.errors = Append(@, "Error: Could not create pipe"),
                           !.exitCode = -1,
                           !.pc = "exited"]
                  ELSE [harness EXCEPT
                           !.retryCount = @ - 1,
                           !.calls = Append(@, HarnessCall("Sleep", 500, << >>)),
                           !.pc = "createPipe"]

\* Fuzz(argc, argv)
CallFuzz ==
    /\ harness.pc = "fuzz"
    /\ HarnessFrame
    /\ harness' = [harness EXCEPT
          !.calls = Append(@, HarnessCall("Fuzz", harness.mode, << >>)),
          !.pc = "cleanup"]

\* if(_pipe != INVALID_HANDLE_VALUE) CloseHandle(_pipe); return 0
WrapperReturn ==
    /\ harness.pc = "cleanup"
    /\ HarnessFrame
    /\ harness' = [harness EXCEPT
          !.calls = IF harness.pipe # "INVALID_HANDLE_VALUE"
                    THEN Append(@, HarnessCall("CloseHandle", 0, << >>))
                    ELSE @,
          !.exitCode = 0,
          !.pc = "exited"]

NextWrapper ==
    \/ WrapperMain
    \/ CreatePipe
    \/ RetryOrGiveUp
    \/ CallFuzz
    \/ WrapperReturn

----------------------------------------------------------------------------
NextHarness ==
    \/ TraceFuncEntry
    \/ ReadCommand
    \/ OpenTestcase
    \/ RunTarget
    \/ EndTestcase
    \/ MainReturn

----------------------------------------------------------------------------
(* Specification *)

Next ==
    \E t \in Threads :
        \/ ThreadStart(t)
        \/ ThreadFini(t)
        \/ HookMemoryRead(t)
        \/ HookMemoryWrite(t)
        \/ HookCall(t)
        \/ HookJump(t)
        \/ HookRet(t)
        \/ HookStackPointerModification(t)
        \/ HookHeapAllocSize(t)
        \/ HookHeapAllocReturn(t)
        \/ HookHeapFree(t)
        \/ HookStackPointerInfo(t)
        \/ CheckIfThen(t)
        \/ CheckCall(t)
        \/ HookTestcaseStart(t)
        \/ HookTestcaseEnd(t)

Spec == Init /\ [][Next]_vars

\* The writer of thread 0 alone, under a longer workload of a few hook kinds.
NextWriter ==
    \/ ThreadStart(0)
    \/ ThreadFini(0)
    \/ HookMemoryRead(0)
    \/ HookCall(0)
    \/ HookHeapAllocSize(0)
    \/ HookStackPointerInfo(0)
    \/ CheckIfThen(0)
    \/ CheckCall(0)
    \/ HookTestcaseStart(0)
    \/ HookTestcaseEnd(0)

SpecWriter == InitWriter /\ [][NextWriter]_vars

\* The CPUID and RDRAND rewrites: thread 0 executes cpuid and rdrand, under
\* every value of the -c and -r options.
CpuProgram == {a \in 48..63 : InsAt(a).Opcode \in {"CPUID", "RDRAND"}}

InitCpu ==
    /\ InitProgram
    /\ appendsLeft = 0
    /\ markersLeft = 0
    /\ \E c \in CpuFeatureLevels, r \in FixedRandomNumbers :
          InitMain(c, r, <<".", "e", "x", "e">>, 0)
    /\ InitMachine
    /\ program = CpuProgram
    /\ instructionsLeft = MaxInstructions
    /\ imagesLeft = 0
    /\ callsLeft = 0

NextCpu ==
    \/ ThreadStart(0)
    \/ ExecIns
    \/ SaveCpuIdInput
    \/ ExecuteInstruction
    \/ RunChangeCpuId
    \/ RunChangeRandomNumber

SpecCpu == InitCpu /\ [][NextCpu]_vars

\* The family encoder alone.
InitEncode ==
    /\ InitProgram
    /\ appendsLeft = 0
    /\ markersLeft = 0
    /\ InitMainDefault
    /\ InitMachine
    /\ InitNoTarget

NextEncode == EncodeFamily

SpecEncode == InitEncode /\ [][NextEncode]_vars

\* Image loads under every value of the -i option, before and after the end
\* of the prefix phase.
InitImages ==
    /\ InitProgram
    /\ appendsLeft = 0
    /\ markersLeft = MaxMarkersAll
    /\ \E i \in InterestingImageLists : InitMain(0, FixedRandomSentinel, i, 0)
    /\ InitMachine
    /\ program = {}
    /\ instructionsLeft = 0
    /\ imagesLeft = MaxImageLoads
    /\ callsLeft = 0

NextImages ==
    \/ ThreadStart(0)
    \/ InstrumentImage
    \/ HookTestcaseStart(0)
    \/ HookTestcaseEnd(0)

SpecImages == InitImages /\ [][NextImages]_vars

\* The planner: thread 0 executes instructions of two images, one of them
\* interesting, with and without stack allocation tracking.
PlannerProgram == {a \in 16..47 : InsAt(a).Opcode \notin {"CPUID", "RDRAND"}}

InitPlanner ==
    /\ InitProgram
    /\ appendsLeft = 3 * MaxInstructions
    /\ markersLeft = 0
    /\ \E s \in {0, 1} : InitMain(0, FixedRandomSentinel, <<"a">>, s)
    /\ InitMachine
    /\ program = PlannerProgram
    /\ instructionsLeft = MaxInstructions
    /\ imagesLeft = MaxImageLoads
    /\ callsLeft = 0

NextPlanner ==
    \/ ThreadStart(0)
    \/ ThreadFini(0)
    \/ InstrumentImage
    \/ ExecIns
    \/ RunInsertCall
    \/ ExecuteInstruction
    \/ CheckIfThen(0)

SpecPlanner == InitPlanner /\ [][NextPlanner]_vars

\* The allocator hooks: thread 0 calls, jumps to and returns from routines,
\* inside and outside testcases.
InitAlloc ==
    /\ InitProgram
    /\ appendsLeft = MaxCallEvents
    /\ markersLeft = MaxMarkersAll
    /\ InitMainDefault
    /\ InitMachine
    /\ program = {}
    /\ instructionsLeft = 0
    /\ imagesLeft = 0
    /\ callsLeft = MaxCallEvents

NextAlloc ==
    \/ ThreadStart(0)
    \/ TargetCall
    \/ TargetTailJump
    \/ TargetReturn
    \/ RunRoutineCall
    \/ CheckCall(0)
    \/ HookTestcaseStart(0)
    \/ HookTestcaseEnd(0)

SpecAlloc == InitAlloc /\ [][NextAlloc]_vars

\* Output files the file system refuses: thread 0 alone, under every set of
\* output files that can be opened.
InitIO ==
    /\ \E names \in SUBSET OutputFileNames : InitProgramOn(names)
    /\ appendsLeft = MaxAppendsAll
    /\ markersLeft = MaxMarkersAll
    /\ InitMainDefault
    /\ InitMachine
    /\ InitNoTarget

NextIO ==
    \/ ThreadStart(0)
    \/ ThreadFini(0)
    \/ HookMemoryRead(0)
    \/ CheckIfThen(0)
    \/ HookTestcaseStart(0)
    \/ HookTestcaseEnd(0)

SpecIO == InitIO /\ [][NextIO]_vars

\* Blocks of no image: thread 0 executes instructions of the image A.so and
\* instructions that lie in no image file, while the loader reports images,
\* libc.so among them.
ResolveProgram == {16, 17, 48, 49, 56}

InitResolve ==
    /\ InitProgram
    /\ appendsLeft = 3 * MaxInstructions
    /\ markersLeft = 0
    /\ InitMain(0, FixedRandomSentinel, <<"b", ".", "s", "o">>, 0)
    /\ InitMachine
    /\ program = ResolveProgram
    /\ instructionsLeft = MaxInstructions
    /\ imagesLeft = MaxImageLoads
    /\ callsLeft = 0

SpecResolve == InitResolve /\ [][NextPlanner]_vars

\* The harness alone, under every script of the driver and for both harness
\* programs.  A process that can take a step takes one.
InitHarness ==
    /\ InitProgram
    /\ appendsLeft = 0
    /\ markersLeft = 0
    /\ InitMainDefault
    /\ \E kind \in HarnessKinds, script \in HarnessScripts :
          InitMachineWith(HarnessAtMain(kind, script))
    /\ InitNoTarget

SpecHarness == InitHarness /\ [][NextHarness]_vars /\ WF_vars(NextHarness)

\* The search of the image registry: InstrumentTrace looks up blocks in every
\* registry of up to MaxImageLoads images with overlapping address ranges.
InitLookup ==
    /\ InitProgram
    /\ appendsLeft = 0
    /\ markersLeft = 0
    /\ InitMainDefault
    /\ regs = [EAX |-> U32(0, 0), EBX |-> U32(0, 0), ECX |-> U32(0, 0), EDX |-> U32(0, 0)]
    /\ rdest = <<0, 0, 0, 0>>
    /\ cpuIdEaxInputReg = U32(0, 0)
    /\ cpuIdEcxInputReg = U32(0, 0)
    /\ cpuIn = [op |-> "none"]
    /\ encIn = << >>
    /\ encOut = [ok |-> TRUE, value |-> 0]
    /\ images \in UNION {[1..n -> LookupImages] : n \in 0..MaxImageLoads}
    /\ prefixData = << >>
    /\ loads = << >>
    /\ due = [t \in Threads |-> << >>]
    /\ curIns = [address |-> -1]
    /\ callStack = << >>
    /\ events = << >>
    /\ stderr = << >>
    /\ harness = NoHarness
    /\ program = {}
    /\ instructionsLeft = MaxLookups
    /\ imagesLeft = 0
    /\ callsLeft = 0

NextLookup == InstrumentBlock

SpecLookup == InitLookup /\ [][NextLookup]_vars


\* The stack bounds: both harness programs, started at every stack pointer
\* and under every stack size limit.
InitStack ==
    /\ InitProgram
    /\ appendsLeft = 0
    /\ markersLeft = 0
    /\ InitMainDefault
    /\ \E kind \in HarnessKinds, script \in HarnessScripts,
          stackBase \in StackBases, rlim_cur \in StackLimits :
          InitMachineWith([HarnessAtMain(kind, script) EXCEPT
                              !.stackBase = stackBase, !.rlim_cur = rlim_cur])
    /\ InitNoTarget

SpecStack == InitStack /\ [][NextHarness]_vars

\* The harness on an input that ends without the end command.
InitEof ==
    /\ InitProgram
    /\ appendsLeft = 0
    /\ markersLeft = 0
    /\ InitMainDefault
    /\ \E kind \in HarnessKinds, script \in EofScripts :
          InitMachineWith(HarnessAtMain(kind, script))
    /\ InitNoTarget

SpecEof == InitEof /\ [][NextHarness]_vars /\ WF_vars(NextHarness)

\* The fuzzing wrapper in every mode, with the pipe of the parent process
\* there at once, after some attempts, or not in time.
InitWrapper ==
    /\ InitProgram
    /\ appendsLeft = 0
    /\ markersLeft = 0
    /\ InitMainDefault
    /\ \E mode \in WrapperModes, delay \in 0..MaxPipeFailures :
          InitMachineWith(WrapperAtMain(mode, delay))
    /\ InitNoTarget

SpecWrapper == InitWrapper /\ [][NextWrapper]_vars

----------------------------------------------------------------------------
(* Properties *)

\* All entries of all trace files.
WrittenEntries == UNION {{files[f][i] : i \in 1..Len(files[f])} : f \in TraceFileNames}

\* The entries the buffer holds between Begin() and the next-entry pointer of thread 0.
Pending ==
    [i \in 1..((nextReg[0] - Begin(WriterAddr)) \div SizeofTraceEntry) |-> entries[i - 1]]

\* The slot the next insertion of thread 0 writes, in the state after the insertion.
StoredEntry == entries'[SlotOf(nextReg[0])]

\* C8: every Branch entry carries flag = (k_code << 1) | t with k_code = 1 (jump),
\* 2 (call), 3 (ret); call and ret entries have t = 1, a jump entry has the
\* taken predicate of the jump; param1 is the source and param2 the target address.
BranchFlagEncoding ==
    /\ [](\A e \in WrittenEntries : e.Type = Branch => e.Flag \in {2, 3, 5, 7})
    /\ [][\A ip \in InsAddrs, target \in TargetAddrs :
            /\ \A taken \in TakenVals :
                 JumpHookWith(0, ip, target, taken) =>
                    /\ StoredEntry.Type = Branch
                    /\ StoredEntry.Flag = 1 * 2 + taken
                    /\ StoredEntry.Param1 = ip
                    /\ StoredEntry.Param2 = target
            /\ CallHookWith(0, ip, target) =>
                    /\ StoredEntry.Type = Branch
                    /\ StoredEntry.Flag = 2 * 2 + 1
                    /\ StoredEntry.Param1 = ip
                    /\ StoredEntry.Param2 = target
            /\ RetHookWith(0, ip, target) =>
                    /\ StoredEntry.Type = Branch
                    /\ StoredEntry.Flag = 3 * 2 + 1
                    /\ StoredEntry.Param1 = ip
                    /\ StoredEntry.Param2 = target]_vars

\* A trace file holds a not-taken jump and a ret.
BranchFlagEncodingWitness ==
    \E f \in TraceFileNames :
        /\ \E i \in 1..Len(files[f]) : files[f][i].Type = Branch /\ files[f][i].Flag = 2
        /\ \E i \in 1..Len(files[f]) : files[f][i].Type = Branch /\ files[f][i].Flag = 7


----------------------------------------------------------------------------
\* C1: after TestcaseStart(id), id # -1, and the matching TestcaseEnd, the file
\* t{id}.trace holds exactly the entries appended in between, each once and in
\* the order of the appends, however many buffer-full flushes happened.
TestcaseFileHoldsAppends ==
    (phase = "idle" /\ nEnded > 0 /\ tcId # -1) =>
        files[TestcaseFileName(tcId)] = tcLog

\* A closed testcase with more entries than the buffer holds, so that a
\* buffer-full flush and the flush of the rest at TestcaseEnd both happened.
TestcaseFileHoldsAppendsWitness ==
    /\ phase = "idle" /\ nEnded > 0 /\ tcId # -1
    /\ Len(tcLog) > ENTRY_BUFFER_SIZE
    /\ tcFlushes > 0
    /\ files[TestcaseFileName(tcId)] = tcLog

\* C2: an append that makes next = end is followed by the flush of [begin, end)
\* and the reset of next before the next append; a testcase with k appends has
\* floor(k / N) buffer-full flushes and its file holds k entries (k * 24 bytes)
\* after TestcaseEnd.
BufferFullFlush ==
    /\ (Running(0) /\ pc[0] = "ready") =>
          /\ nextReg[0] >= Begin(WriterAddr)
          /\ nextReg[0] < endReg[0]
    /\ (Running(0) /\ phase = "testcase" /\ pc[0] = "ready") =>
          /\ tcFlushes = Len(tcLog) \div ENTRY_BUFFER_SIZE
          /\ nextReg[0] = Begin(WriterAddr) + (Len(tcLog) % ENTRY_BUFFER_SIZE) * 24
          /\ tcId # -1 => Len(files[TestcaseFileName(tcId)]) = tcFlushes * ENTRY_BUFFER_SIZE
    /\ (phase = "idle" /\ nEnded > 0) =>
          /\ tcFlushes = Len(tcLog) \div ENTRY_BUFFER_SIZE
          /\ tcId # -1 => /\ Len(files[TestcaseFileName(tcId)]) = Len(tcLog)
                          /\ fileBytes[TestcaseFileName(tcId)] = Len(tcLog) * 24

\* A closed testcase of N + 1 entries: one buffer-full flush, (N + 1) * 24 bytes.
BufferFullFlushWitness ==
    /\ phase = "idle" /\ nEnded > 0 /\ tcId # -1
    /\ Len(tcLog) = ENTRY_BUFFER_SIZE + 1
    /\ tcFlushes = 1
    /\ fileBytes[TestcaseFileName(tcId)] = (ENTRY_BUFFER_SIZE + 1) * 24

\* No entry stored before the first TestcaseStart is in a testcase file, and no
\* entry stored after it is in prefix.trace.
PrefixSeparation ==
    \A f \in TraceFileNames : \A i \in 1..Len(files[f]) :
        IF f = PrefixFileName
        THEN firstStartAt = -1 \/ files[f][i].seq <= firstStartAt
        ELSE firstStartAt # -1 /\ files[f][i].seq > firstStartAt

\* A TestcaseStart step that flushes [begin, next) to prefix.trace, closes it
\* and the metadata file, leaves prefix mode and opens the empty testcase file.
LeavesPrefix ==
    /\ files'[PrefixFileName] = files[PrefixFileName] \o Pending
    /\ fileBytes'[PrefixFileName] = fileBytes[PrefixFileName] + Len(Pending) * 24
    /\ ~prefixMode'
    /\ ~prefixDataOpen'
    /\ outOpen'
    /\ currentOutputFilename' = TestcaseFileName(testcaseId')
    /\ currentOutputFilename' # PrefixFileName
    /\ files'[currentOutputFilename'] = << >>

\* C3 as stated: every first TestcaseStart flushes the buffer to prefix.trace
\* and closes the prefix files before it opens the testcase file, and the
\* entries of the prefix phase and of the testcases stay apart.
PrefixTransitionAtFirstStart ==
    /\ []PrefixSeparation
    /\ [][(HookTestcaseStart(0) /\ firstStartAt = -1) => LeavesPrefix]_vars

\* C3, amended: the first TestcaseStart does so when prefix mode is still
\* active, that is when no TestcaseEnd has ended prefix mode before it; the
\* entries of the prefix phase and of the testcases stay apart in every case.
PrefixTransition ==
    /\ []PrefixSeparation
    /\ [][(HookTestcaseStart(0) /\ prefixMode) => LeavesPrefix]_vars

\* The first TestcaseStart has flushed buffered prefix entries, and a testcase
\* file holds entries.
PrefixTransitionWitness ==
    /\ firstStartAt > 0
    /\ Len(files[PrefixFileName]) = firstStartAt
    /\ ~prefixMode /\ ~prefixDataOpen
    /\ \E id \in TestcaseIds : Len(files[TestcaseFileName(id)]) > 0

\* C4: each testcase closed by TestcaseEnd produces its line "t\t{file}" once,
\* at that TestcaseEnd, with the buffered rest written and the file closed;
\* no other step, in particular leaving prefix mode, writes a line.
NotifyOnce ==
    /\ [](Len(stdout) = nEnded)
    /\ [][(HookTestcaseEnd(0) /\ phase = "testcase") =>
            /\ stdout' = Append(stdout, TestcaseFileName(tcId))
            /\ ~outOpen'
            /\ tcId # -1 =>
                 files'[TestcaseFileName(tcId)] = files[TestcaseFileName(tcId)] \o Pending]_vars
    /\ [][~(HookTestcaseEnd(0) /\ phase = "testcase") => stdout' = stdout]_vars

\* Two testcases were closed, the first of them after the prefix phase.
NotifyOnceWitness ==
    /\ nEnded = 2
    /\ Len(stdout) = 2
    /\ firstStartAt > 0
    /\ stdout[2] = TestcaseFileName(tcId)
    /\ Len(files[TestcaseFileName(tcId)]) > 0

\* C5: an entry stored between a TestcaseEnd and the next TestcaseStart is in
\* no file, and a file grows only in a step that starts with testcase id # -1
\* or in prefix mode.
IdleDrop ==
    /\ [](\A e \in WrittenEntries : e.seq \notin idleSeqs)
    /\ [][(\E f \in TraceFileNames : fileBytes'[f] > fileBytes[f]) =>
              (testcaseId # -1 \/ prefixMode)]_vars

\* The buffer filled up while idle, then a testcase ran and was closed.
IdleDropWitness ==
    /\ Cardinality(idleSeqs) >= ENTRY_BUFFER_SIZE
    /\ phase = "idle" /\ nEnded > 0 /\ tcId # -1
    /\ Len(tcLog) > 0
    /\ files[TestcaseFileName(tcId)] = tcLog

\* C6: the size of every trace file is a multiple of 24 in every reachable
\* state: the files consist of whole entries.
WholeEntryFlush ==
    \A f \in TraceFileNames :
        /\ fileBytes[f] % 24 = 0
        /\ fileBytes[f] = 24 * Len(files[f])

\* A file received a full buffer and then the rest of a testcase.
WholeEntryFlushWitness ==
    \E f \in TraceFileNames : fileBytes[f] = 24 * (ENTRY_BUFFER_SIZE + 1)

\* The fields the kind of entry e does not use are zero.
UnusedFieldsAreZero(e) ==
    CASE e.Type \in {MemoryRead, MemoryWrite} -> e.Flag = 0
      [] e.Type = HeapAllocSizeParameter -> e.Flag = 0 /\ e.Param0 = 0 /\ e.Param2 = 0
      [] e.Type \in {HeapAllocAddressReturn, HeapFreeAddressParameter} ->
             e.Flag = 0 /\ e.Param0 = 0 /\ e.Param1 = 0
      [] e.Type \in {Branch, StackPointerModification} -> e.Param0 = 0
      [] e.Type = StackPointerInfo -> e.Flag = 0 /\ e.Param0 = 0
      [] OTHER -> FALSE

\* C7: every entry of every trace file has the fields its kind does not use
\* equal to zero, also when its buffer slot held an entry of another kind before.
UnusedFieldsZero ==
    \A e \in WrittenEntries : UnusedFieldsAreZero(e)

\* A runtime hook, or one of its buffer checks, executed by thread t.
RuntimeHook(t) ==
    \/ HookMemoryRead(t)
    \/ HookMemoryWrite(t)
    \/ HookCall(t)
    \/ HookJump(t)
    \/ HookRet(t)
    \/ HookStackPointerModification(t)
    \/ HookHeapAllocSize(t)
    \/ HookHeapAllocReturn(t)
    \/ HookHeapFree(t)
    \/ HookStackPointerInfo(t)
    \/ CheckIfThen(t)
    \/ CheckCall(t)
    \/ HookTestcaseStart(t)
    \/ HookTestcaseEnd(t)

\* C9: for every interleaving of the hooks of several threads, only thread 0
\* changes the buffer and the files, and the next-entry pointer of every other
\* thread is null in every reachable state.
SingleThreadRestriction ==
    /\ [](\A t \in Threads \ {0} : nextReg[t] = NULL)
    /\ [][(\E t \in Threads \ {0} : RuntimeHook(t)) =>
              UNCHANGED <<entries, files, fileBytes, stdout>>]_vars

\* C10: a runtime hook executed with a null next-entry pointer has no effect:
\* the process keeps running, the pointer stays null, nothing is stored or written.
NullPointerHookHasNoEffect ==
    [][\A t \in Threads :
          (started[t] /\ nextReg[t] = NULL /\ RuntimeHook(t)) =>
              /\ status' = "running"
              /\ nextReg'[t] = NULL
              /\ UNCHANGED <<entries, writerVars>>]_vars

----------------------------------------------------------------------------
(* The planner *)

\* All entries thread 0 has emitted: those of the files and those of the buffer.
EmittedEntries == WrittenEntries \cup {Pending[i] : i \in 1..Len(Pending)}

\* The rules of InstrumentTrace that skip an instruction before any other rule.
InSkipSet(ins) ==
    \/ ins.SegmentPrefix
    \/ ins.Opcode \in PushFamily
    \/ ins.Opcode \in PopFamily
    \/ ins.Opcode = "LEA"

\* Thread 0 has reached an instruction and Pin has made every call due at it.
InstructionDone == curIns.address # -1 /\ due[0] = << >>

\* C11: for an instruction of the push family, of the pop family, a lea or an
\* instruction with a segment prefix the planner inserts no hook at all, and no
\* MemoryRead or MemoryWrite entry is ever emitted for such an instruction, in
\* any image.
PlannerSkipSet ==
    /\ (curIns.address # -1 /\ InSkipSet(InsAt(curIns.address))) => curIns.calls = << >>
    /\ \A e \in EmittedEntries :
          e.Type \in {MemoryRead, MemoryWrite} => ~InSkipSet(InsAt(e.Param1))

\* C11 witness: thread 0 has executed a push, which writes memory, in a block of
\* an interesting image, and an instruction outside the skip set has emitted an
\* entry.
PlannerSkipSetWitness ==
    /\ InstructionDone
    /\ InsAt(curIns.address).Opcode \in PushFamily
    /\ InsAt(curIns.address).IsMemoryWrite
    /\ InLoadedImage(curIns.address)
    /\ curIns.interesting
    /\ \E e \in EmittedEntries : e.Type = MemoryWrite

\* No MemoryRead, MemoryWrite or StackPointerModification(other) entry comes
\* from a block of a non-interesting image.
NoDataEntriesOfNonInterestingBlocks ==
    \A e \in EmittedEntries :
       ~IsInterestingBlock(images, e.Param1, e.Param1) =>
          /\ e.Type \notin {MemoryRead, MemoryWrite}
          /\ ~(e.Type = StackPointerModification /\ e.Flag = StackIsOther)

\* The instruction thread 0 has executed has emitted its Branch entry.
BranchEntryEmitted ==
    \E e \in EmittedEntries : e.Type = Branch /\ e.Param1 = curIns.address

\* C12 as stated: in a block of a non-interesting image no MemoryRead,
\* MemoryWrite or StackPointerModification(other) entry is emitted, and every
\* call, jump and ret executed in such a block emits a Branch entry.
BranchesTracedInEveryImage_Original ==
    /\ NoDataEntriesOfNonInterestingBlocks
    /\ (InstructionDone /\ ~curIns.interesting /\ InsAt(curIns.address).IsControlFlow)
          => BranchEntryEmitted

\* C12: in a block of a non-interesting image no MemoryRead, MemoryWrite or
\* StackPointerModification(other) entry is emitted, and every call, jump and
\* ret without a segment prefix that thread 0 executes in such a block emits a
\* Branch entry; a call, jump or ret with a segment prefix emits no entry.
BranchesTracedInEveryImage ==
    /\ NoDataEntriesOfNonInterestingBlocks
    /\ (InstructionDone /\ ~curIns.interesting /\ InsAt(curIns.address).IsControlFlow)
          => (BranchEntryEmitted <=> ~InsAt(curIns.address).SegmentPrefix)

\* C12 witness: thread 0 has executed a call without a segment prefix in a
\* block of a loaded, non-interesting image, and its Branch entry is emitted.
BranchesTracedInEveryImageWitness ==
    /\ InstructionDone
    /\ InLoadedImage(curIns.address)
    /\ ~curIns.interesting
    /\ InsAt(curIns.address).IsCall
    /\ ~InsAt(curIns.address).SegmentPrefix
    /\ BranchEntryEmitted

----------------------------------------------------------------------------
(* CPUID and RDRAND *)

\* The profile the -c option selects.
ProfileOf(level) ==
    CASE level = 1 -> model_Pentium3
      [] level = 2 -> model_Merom
      [] level = 3 -> model_Westmere
      [] level = 4 -> model_Ivybridge

\* The registers the rewrite of a leaf and subleaf names.
NamedRegisters(leaf, subleaf) ==
    CASE leaf = U32(0, 0) -> {"EAX", "EBX", "ECX", "EDX"}
      [] leaf = U32(0, 1) -> {"EAX", "ECX", "EDX"}
      [] leaf = U32(32768, 0) -> {"EAX"}
      [] leaf = U32(32768, 1) -> {"ECX", "EDX"}
      [] leaf = U32(0, 7) /\ subleaf = U32(0, 0) -> {"EBX"}
      [] OTHER -> {}

\* Thread 0 has executed a cpuid or an rdrand and Pin has made every call due at it.
CpuIdDone == InstructionDone /\ InsAt(curIns.address).Opcode = "CPUID" /\ cpuIn.op = "cpuid"

RdrandDone == InstructionDone /\ InsAt(curIns.address).Opcode = "RDRAND" /\ cpuIn.op = "rdrand"

\* C13: with a profile P selected, the rewrite of CPUID yields for leaf 0
\* EAX = P.max_input and EBX/EDX/ECX = "Genu"/"ineI"/"ntel"; for leaf 1
\* EAX = P.encoded_family (0x6fb for Merom), EDX = P.features_edx,
\* ECX = P.features_ecx; for leaf 0x80000000 EAX = P.max_ext_input; for leaf
\* 0x80000001 EDX/ECX = P.features_ext_edx/ecx if P.max_ext_input >= 0x80000001
\* and 0/0 otherwise; for leaf 7 subleaf 0 EBX = P.features_sext_ebx if
\* P.max_input >= 7 and 0 otherwise.  The leaf and the subleaf are the values
\* of EAX and ECX before the instruction.
CpuIdRewrite ==
    [][(RunChangeCpuId /\ knobCpuFeatureLevel \in 1..4) =>
          LET P == ProfileOf(knobCpuFeatureLevel)
              leaf == cpuIn.leaf
              subleaf == cpuIn.subleaf
          IN  /\ leaf = U32(0, 0) =>
                    /\ regs'.EAX = P.max_input
                    /\ regs'.EBX = U32(30062, 25927)
                    /\ regs'.EDX = U32(18789, 28265)
                    /\ regs'.ECX = U32(27749, 29806)
              /\ leaf = U32(0, 1) =>
                    /\ regs'.EAX = P.encoded_family
                    /\ regs'.EDX = P.features_edx
                    /\ regs'.ECX = P.features_ecx
                    /\ knobCpuFeatureLevel = 2 => regs'.EAX = U32(0, 1787)
              /\ leaf = U32(32768, 0) => regs'.EAX = P.max_ext_input
              /\ leaf = U32(32768, 1) =>
                    IF GeqU32(P.max_ext_input, U32(32768, 1))
                    THEN regs'.EDX = P.features_ext_edx /\ regs'.ECX = P.features_ext_ecx
                    ELSE regs'.EDX = U32(0, 0) /\ regs'.ECX = U32(0, 0)
              /\ (leaf = U32(0, 7) /\ subleaf = U32(0, 0)) =>
                    IF GeqU32(P.max_input, U32(0, 7))
                    THEN regs'.EBX = P.features_sext_ebx
                    ELSE regs'.EBX = U32(0, 0)]_vars

\* C13 witness: under -c 2 (Merom) the target has executed cpuid with EAX = 1,
\* the host has answered with another EAX, and EAX holds 0x6fb.
CpuIdRewriteWitness ==
    /\ CpuIdDone
    /\ knobCpuFeatureLevel = 2
    /\ cpuIn.leaf = U32(0, 1)
    /\ cpuIn.host.EAX # U32(0, 1787)
    /\ regs.EAX = U32(0, 1787)
    /\ regs.EDX = U32(45035, 64511)

\* C14: with profile id 0 or an unrecognized profile id ChangeCpuId leaves EAX,
\* EBX, ECX and EDX as the host CPUID has written them, for every leaf; with a
\* profile selected every leaf other than 0, 1, 0x80000000, 0x80000001 and 7
\* with subleaf 0 leaves the four registers unchanged, and for a rewritten leaf
\* every register that is not named for that leaf is unchanged.
CpuIdPassThrough ==
    [][RunChangeCpuId =>
          /\ regs = cpuIn.host
          /\ knobCpuFeatureLevel \notin 1..4 => regs' = regs
          /\ knobCpuFeatureLevel \in 1..4 =>
                \A r \in {"EAX", "EBX", "ECX", "EDX"} \ NamedRegisters(cpuIn.leaf, cpuIn.subleaf) :
                   regs'[r] = regs[r]]_vars

\* C14 witness: under the unrecognized profile id 5 the target has executed
\* cpuid with EAX = 1 and the registers hold what the host has written.
CpuIdPassThroughWitness ==
    /\ CpuIdDone
    /\ knobCpuFeatureLevel = 5
    /\ cpuIn.leaf = U32(0, 1)
    /\ regs = cpuIn.host
    /\ regs.EAX = U32(0, 22)

\* C16: when the value V of the -r option differs from 0xBADBADBADBADBAD, every
\* rdrand leaves its destination register equal to V, whatever the host has
\* produced; when V is 0xBADBADBADBADBAD, rdrand is not rewritten and the
\* destination holds the value of the host.
RdrandDeterminism ==
    RdrandDone =>
       IF knobFixedRandomNumbers # <<2989, 47835, 44474, 56237>>
       THEN rdest = knobFixedRandomNumbers
       ELSE rdest = cpuIn.host

\* C16 witness: under -r 0x0000000100000002 the target has executed rdrand, the
\* host has produced another value, and the destination holds the -r value.
RdrandDeterminismWitness ==
    /\ RdrandDone
    /\ knobFixedRandomNumbers = <<0, 1, 0, 2>>
    /\ cpuIn.host # knobFixedRandomNumbers
    /\ rdest = <<0, 1, 0, 2>>

----------------------------------------------------------------------------
(* The family encoder *)

\* C15: the encoded_family of each profile is cpuid_encode_family of its
\* documented triple, Pentium3 (6, 7, 2) = 0x672, Merom (6, 15, 11) = 0x6fb,
\* Westmere (6, 44, 2) = 0x206c2, Ivybridge (6, 58, 9) = 0x306a9; and for every
\* input the encoder accepts each packed field fits in its 4 bits, and the
\* extended family in its 8 bits (27:20), so that the result has no bit above
\* bit 27.
EncodedFamilyFields ==
    /\ cpuid_encode_family(6, 7, 2) = [ok |-> TRUE, value |-> 1650]
    /\ cpuid_encode_family(6, 15, 11) = [ok |-> TRUE, value |-> 1787]
    /\ cpuid_encode_family(6, 44, 2) = [ok |-> TRUE, value |-> 132802]
    /\ cpuid_encode_family(6, 58, 9) = [ok |-> TRUE, value |-> 198313]
    /\ model_Pentium3.encoded_family = ToU32(1650)
    /\ model_Merom.encoded_family = ToU32(1787)
    /\ model_Westmere.encoded_family = ToU32(132802)
    /\ model_Ivybridge.encoded_family = ToU32(198313)
    /\ (encIn # << >> /\ encOut.ok) =>
          LET family == encIn[1]
              model == encIn[2]
              stepping == encIn[3]
              v == encOut.value
          IN  /\ stepping < 16
              /\ (v \div 16) % 16 = (IF family \in {6, 15} THEN model % 16 ELSE model)
              /\ (v \div 256) % 16 = (IF family >= 15 THEN 15 ELSE family)
              /\ (v \div 65536) % 16 = (IF family \in {6, 15} THEN model \div 16 ELSE 0)
              /\ (IF family >= 15 THEN family - 15 ELSE 0) < 256
              /\ v < 268435456

----------------------------------------------------------------------------
(* Allocations *)

\* The event that ends the frame which event i has pushed: the first later
\* ret or tail jump at the depth of event i; 0 when there is none yet.
FrameEnd(i) ==
    LET later == {j \in (i + 1)..Len(events) :
                     events[j].depth = events[i].depth /\ events[j].ev \in {"ret", "jmp"}}
    IN  IF later = {} THEN 0 ELSE CHOOSE j \in later : \A k \in later : j <= k

\* The file of the testcase the last TestcaseEnd has closed.
ClosedTestcaseFile == files[TestcaseFileName(tcId)]

\* A TestcaseEnd has closed a testcase with a file of its own.
TestcaseClosed ==
    /\ status = "running"
    /\ phase = "idle"
    /\ nEnded >= 1
    /\ tcId # -1

\* Entries of the types s, then r, then f with the given parameters are in
\* the sequence log, in this relative order.
InOrder(log, size, address) ==
    \E a, b, c \in 1..Len(log) :
       /\ a < b /\ b < c
       /\ log[a].Type = HeapAllocSizeParameter /\ log[a].Param1 = size
       /\ log[b].Type = HeapAllocAddressReturn /\ log[b].Param2 = address
       /\ log[c].Type = HeapFreeAddressParameter /\ log[c].Param2 = address

\* C17: when the target on thread 0 calls malloc(s), malloc returns address A
\* with its ret, and the target later calls free(A) inside the same testcase,
\* the testcase file contains HeapAllocSizeParameter{param1 = s}, then
\* HeapAllocAddressReturn{param2 = A}, then HeapFreeAddressParameter{param2 = A},
\* in this relative order; the size entry is stored when the allocator is
\* entered and the address entry when the allocator returns.
MallocFreePair ==
    /\ [](TestcaseClosed =>
            \A i, k \in 1..Len(events) :
               LET j == FrameEnd(i) IN
               (/\ events[i].ev = "call" /\ events[i].rtn = "malloc" /\ events[i].tc = nEnded
                /\ j # 0 /\ j < k
                /\ events[j].ev = "ret" /\ events[j].rtn = "malloc"
                /\ events[k].ev = "call" /\ events[k].rtn = "free" /\ events[k].tc = nEnded
                /\ events[k].args[1] = events[j].value)
               => InOrder(ClosedTestcaseFile, events[i].args[1], events[j].value))
    /\ [][RunRoutineCall =>
            LET last == events[Len(events)] IN
            /\ StoredEntry.Type = HeapAllocSizeParameter =>
                  /\ last.ev \in {"call", "jmp"}
                  /\ last.rtn \in Allocators
            /\ StoredEntry.Type = HeapAllocAddressReturn =>
                  /\ last.ev = "ret"
                  /\ last.rtn \in Allocators
                  /\ StoredEntry.Param2 = last.value]_vars

\* C17 witness: inside testcase 1 the target has called malloc(8), malloc has
\* returned 80, the target has called free(80), and the closed file t1.trace
\* holds exactly the three entries.
MallocFreePairWitness ==
    /\ TestcaseClosed
    /\ Len(events) >= 3
    /\ events[1].ev = "call" /\ events[1].rtn = "malloc" /\ events[1].tc = 1
    /\ events[2].ev = "ret" /\ events[2].rtn = "malloc" /\ events[2].value = 80
    /\ events[3].ev = "call" /\ events[3].rtn = "free" /\ events[3].args[1] = 80
    /\ Len(ClosedTestcaseFile) = 3
    /\ InOrder(ClosedTestcaseFile, 8, 80)

\* The entries thread 0 has emitted since event i, by their stamps.
EntriesSince(i) == {e \in EmittedEntries : e.seq > events[i].at}

\* The target has entered an allocator by the call of event i from outside
\* every routine, the chain of calls and jumps behind it has returned to the
\* caller, and every hook of the chain has run, while entries are kept.
ChainReturned(i) ==
    /\ status = "running"
    /\ pc[0] = "ready"
    /\ due[0] = << >>
    /\ callStack = << >>
    /\ phase = "prefix" \/ (phase = "testcase" /\ tcId # -1)
    /\ events[i].ev = "call"
    /\ events[i].depth = 1
    /\ events[i].rtn \in Allocators
    /\ \A j \in (i + 1)..(Len(events) - 1) : ~(events[j].ev = "ret" /\ events[j].depth = 1)
    /\ events[Len(events)].ev = "ret"
    /\ events[Len(events)].depth = 1

\* C18: for every call chain entered from an instrumented allocator, with tail
\* jumps and with allocators that call other instrumented allocators, that
\* returns address A, the trace contains exactly one HeapAllocAddressReturn with
\* param2 = A, and the entry before it is a HeapAllocSizeParameter.
AllocationReturnPairing ==
    \A i \in 1..Len(events) :
       ChainReturned(i) =>
          LET returns == {e \in EntriesSince(i) :
                             /\ e.Type = HeapAllocAddressReturn
                             /\ e.Param2 = events[Len(events)].value}
          IN  /\ Cardinality(returns) = 1
              /\ \A e \in returns :
                    \E s \in EntriesSince(i) :
                       s.seq = e.seq - 1 /\ s.Type = HeapAllocSizeParameter

----------------------------------------------------------------------------
(* Images *)

\* C19: the value of the -i option is split into non-empty items at every
\* colon and at every semicolon, each item is lower-cased, and an image is
\* interesting exactly when its lower-cased path contains at least one item.
InterestingImageSplit ==
    LET colons == [i \in 1..Len(knobInterestingImageList) |->
                      IF knobInterestingImageList[i] = ";" THEN ":"
                      ELSE knobInterestingImageList[i]]
        items == GetlineLoop(colons, << >>, << >>, ":")
    IN  \A k \in 1..Len(images) :
           images[k].interesting <=>
              \E n \in 1..Len(items) : Contains(tolower(images[k].name), items[n])

\* The line "i\t{0|1}\t{start_hex}\t{end_hex}\t{name}" of the k-th load.
LineOfLoad(k) ==
    <<"i", "\t", IF images[k].interesting THEN "1" ELSE "0", "\t">>
        \o Hex(loads[k].low) \o <<"\t">> \o Hex(loads[k].high) \o <<"\t">>
        \o loads[k].name \o <<"\n">>

\* Every load has appended one record to the image registry.
OneRecordPerLoad ==
    /\ Len(images) = Len(loads)
    /\ \A k \in 1..Len(loads) :
          /\ images[k].name = loads[k].name
          /\ images[k].startAddress = loads[k].low
          /\ images[k].endAddress = loads[k].high

\* C20 as stated: every image load, at any time during the process, writes
\* exactly one line "i\t{0|1}\t{start_hex}\t{end_hex}\t{name}" to prefix_data.txt
\* and appends one record to the image registry, and the lines are in the order
\* of the loads.
ImageLoadLines_Original ==
    /\ OneRecordPerLoad
    /\ Len(prefixData) = Len(loads)
    /\ \A k \in 1..Len(loads) : prefixData[k] = LineOfLoad(k)

\* C20: every image load appends one record to the image registry; a load
\* reported while the prefix mode is active writes exactly one line
\* "i\t{0|1}\t{start_hex}\t{end_hex}\t{name}" to prefix_data.txt, a load reported
\* after the prefix mode has ended writes no line; the lines are in the order
\* of the loads.
ImageLoadLines ==
    /\ OneRecordPerLoad
    /\ \E n \in 0..Len(loads) :
          /\ \A k \in 1..Len(loads) : loads[k].prefixMode <=> k <= n
          /\ Len(prefixData) = n
          /\ \A k \in 1..n : prefixData[k] = LineOfLoad(k)

\* C20 witness: two images were loaded in prefix mode, one of them interesting,
\* and a third after the prefix mode has ended; prefix_data.txt holds the two
\* lines and the registry three records.
ImageLoadLinesWitness ==
    /\ Len(loads) = 3
    /\ loads[1].prefixMode /\ loads[2].prefixMode /\ ~loads[3].prefixMode
    /\ Len(prefixData) = 2
    /\ Len(images) = 3
    /\ images[1].interesting # images[2].interesting
    /\ prefixData[1] # prefixData[2]

----------------------------------------------------------------------------
\* An output file was to be opened and the file system has refused it: the
\* prefix metadata file in main(), or the trace file named last.
OpenRefused ==
    \/ PrefixDataFileName \notin openable
    \/ currentOutputFilename # "" /\ currentOutputFilename \notin openable

\* C21: when an output file (prefix.trace, prefix_data.txt, t{id}.trace) cannot
\* be opened, the process writes the error message to stderr and terminates
\* with exit code 1 (result "exit1"); from then on no entry is written to a
\* file and no notification line is emitted.
FatalOpenFailure ==
    /\ [](OpenRefused => status = "exit1")
    /\ [][OpenRefused => UNCHANGED <<files, fileBytes, stdout>>]_vars

----------------------------------------------------------------------------
\* The name by which InstrumentImage recognises libc.
LibcName == <<"l", "i", "b", "c", ".", "s", "o">>

\* The loader has reported libc.
LibcLoadDetected == \E k \in 1..Len(loads) : Contains(loads[k].name, LibcName)

\* C22: a block that lies in no registered image is instrumented as
\* interesting (its memory reads and writes are traced) and a warning is
\* written to stderr, except that no warning is written while libc has not yet
\* been observed loading.
UnresolvedBlockWarning ==
    [][instructionsLeft' # instructionsLeft =>
          LET address == curIns'.address IN
          CannotResolveImage(images, address, address) =>
              /\ curIns'.interesting
              /\ curIns'.calls = InstrumentIns(InsAt(address), TRUE, useFixedRandomNumber,
                                               enableStackAllocationTracking)
              /\ ~LibcLoadDetected => stderr' = stderr
              /\ LibcLoadDetected => \E k \in 1..Len(stderr') : stderr'[k] = address]_vars

----------------------------------------------------------------------------
(* The harness protocol *)

\* The commands of a script up to its first end command.
RECURSIVE BeforeExit(_)
BeforeExit(script) ==
    IF script = << >> \/ Head(script).cmd = "e" THEN << >>
    ELSE <<Head(script)>> \o BeforeExit(Tail(script))

\* The calls the protocol asks for: for every testcase whose file can be
\* opened the start marker with its id, the target on its file, the end marker.
RECURSIVE ProtocolCalls(_)
ProtocolCalls(commands) ==
    IF commands = << >> THEN << >>
    ELSE (IF Head(commands).file \in ExistingFiles
          THEN <<HarnessCall("PinNotifyTestcaseStart", Head(commands).id, << >>),
                 HarnessCall("RunTarget", 0, Head(commands).file),
                 HarnessCall("PinNotifyTestcaseEnd", 0, << >>)>>
          ELSE << >>)
         \o ProtocolCalls(Tail(commands))

\* The calls of the harness with one of the names.
CallsOf(names) == SelectSeq(harness.calls, LAMBDA c : c.fn \in names)

MarkersAndTarget == CallsOf({"PinNotifyTestcaseStart", "RunTarget", "PinNotifyTestcaseEnd"})

Markers == CallsOf({"PinNotifyTestcaseStart", "PinNotifyTestcaseEnd"})

\* C23: the harness calls PinNotifyStackPointer once, at startup and before
\* any marker; for every "t <id>" command it reads whose file can be opened it
\* calls PinNotifyTestcaseStart(id), the target and PinNotifyTestcaseEnd(), in
\* this order and once each; the markers alternate, beginning with a start
\* marker; a command whose file cannot be opened causes no marker.
HarnessProtocol ==
    /\ harness.pc = "main" => harness.calls = << >>
    /\ harness.pc \notin {"none", "main"} =>
          /\ Len(CallsOf({"PinNotifyStackPointer"})) = 1
          /\ harness.calls[1].fn = "PinNotifyStackPointer"
    /\ Len(MarkersAndTarget) <= Len(ProtocolCalls(BeforeExit(harness.script)))
    /\ MarkersAndTarget = SubSeq(ProtocolCalls(BeforeExit(harness.script)), 1, Len(MarkersAndTarget))
    /\ \A k \in 1..Len(Markers) :
          Markers[k].fn = IF k % 2 = 1 THEN "PinNotifyTestcaseStart" ELSE "PinNotifyTestcaseEnd"
    /\ harness.pc \in {"return", "exited"} =>
          MarkersAndTarget = ProtocolCalls(BeforeExit(harness.script))

\* C23 witness: the harness has run a script of three testcases, the second
\* with a file that cannot be opened, and has made the six calls of the two
\* others.
HarnessProtocolWitness ==
    /\ harness.pc = "exited"
    /\ Len(BeforeExit(harness.script)) = 3
    /\ harness.script[2].file \notin ExistingFiles
    /\ Len(harness.errors) = 1
    /\ Len(MarkersAndTarget) = 6
    /\ MarkersAndTarget[1].id # MarkersAndTarget[4].id

\* The files of the testcases of a script that cannot be opened.
MissingFiles(commands) ==
    LET missing == SelectSeq(commands, LAMBDA c : c.file \notin ExistingFiles)
    IN  [k \in 1..Len(missing) |-> missing[k].file]

\* The ids of the testcases the harness has started.
StartedIds ==
    LET starts == CallsOf({"PinNotifyTestcaseStart"}) IN [k \in 1..Len(starts) |-> starts[k].id]

\* The ids of the testcases of a script whose file can be opened.
OpenableIds(commands) ==
    LET openables == SelectSeq(commands, LAMBDA c : c.file \in ExistingFiles)
    IN  [k \in 1..Len(openables) |-> openables[k].id]

\* C24: on a finite stream of well-formed commands that ends with "e 0" the
\* harness processes each "t" command before it once and in order (the
\* testcase is run, or the error of its file is reported), then leaves the
\* loop and exits with code 0; it makes no call after it has read the "e"
\* command, and reads nothing behind it.
HarnessTermination ==
    /\ <>(harness.pc = "exited")
    /\ [](harness.pc = "exited" =>
            /\ harness.exitCode = 0
            /\ StartedIds = OpenableIds(BeforeExit(harness.script))
            /\ Len(CallsOf({"PinNotifyTestcaseEnd"})) = Len(StartedIds)
            /\ harness.errors = MissingFiles(BeforeExit(harness.script))
            /\ harness.stdin = ScriptLines(SubSeq(harness.script,
                                                  Len(BeforeExit(harness.script)) + 2,
                                                  Len(harness.script))))
    /\ [][harness.pc \in {"return", "exited"} => harness.calls' = harness.calls]_vars

\* C24 witness: the harness has exited with code 0 after two testcases and an
\* unreadable one, with the lines of a testcase behind "e 0" left unread.
HarnessTerminationWitness ==
    /\ harness.pc = "exited"
    /\ harness.exitCode = 0
    /\ Len(StartedIds) = 2
    /\ Len(harness.errors) = 1
    /\ Len(harness.stdin) = 2

----------------------------------------------------------------------------
\* C25: when thread 0 exits while a testcase is active, the entries buffered
\* in [begin, next) are flushed to t{id}.trace, which then holds every entry
\* of the testcase so far as whole entries and is closed; the notification
\* line of the testcase is not written, neither then nor later.
ExitInTestcase ==
    /\ [][(ThreadFini(0) /\ phase = "testcase" /\ tcId # -1) =>
            /\ files'[TestcaseFileName(tcId)] = files[TestcaseFileName(tcId)] \o Pending
            /\ files'[TestcaseFileName(tcId)] = tcLog
            /\ fileBytes'[TestcaseFileName(tcId)] = SizeofTraceEntry * Len(tcLog)
            /\ \A f \in TraceFileNames \ {TestcaseFileName(tcId)} : files'[f] = files[f]
            /\ ~outOpen'
            /\ status' = "running"
            /\ stdout' = stdout]_vars
    /\ [][exited[0] => UNCHANGED <<stdout, files>>]_vars
    /\ []((exited[0] /\ phase = "testcase") => Len(stdout) = nEnded)

\* C25 witness: thread 0 has exited inside testcase 1, which had stored more
\* entries than the buffer holds; t1.trace holds them all, and no line names it.
ExitInTestcaseWitness ==
    /\ exited[0]
    /\ phase = "testcase" /\ tcId = 1
    /\ Len(tcLog) > ENTRY_BUFFER_SIZE
    /\ Len(tcLog) % ENTRY_BUFFER_SIZE # 0
    /\ files[TestcaseFileName(1)] = tcLog
    /\ \A k \in 1..Len(stdout) : stdout[k] # TestcaseFileName(1)

----------------------------------------------------------------------------
\* The last event of the target is the entry of the routine rtn, made by the
\* step at hand.
Enters(rtn) ==
    /\ Len(events') = Len(events) + 1
    /\ events'[Len(events')].ev = "call"
    /\ events'[Len(events')].rtn = rtn

\* C26: every call PinNotifyAllocation(addr, size) on thread 0 appends a
\* HeapAllocSizeParameter entry with param1 = size, immediately followed by a
\* HeapAllocAddressReturn entry with param2 = addr: these are the two
\* insertions Pin has to make at the entry of the routine.
NotifyAllocationEntries ==
    [][Enters("PinNotifyAllocation") =>
          LET args == events'[Len(events')].args IN
          due'[0] = <<RoutineCall("InsertHeapAllocSizeParameterEntry", args[2], 0),
                      RoutineCall("InsertHeapAllocAddressReturnEntry", args[1], 0)>>]_vars

----------------------------------------------------------------------------
\* An address lies in the inclusive range of an image.
InRange(img, address) == img.startAddress <= address /\ address <= img.endAddress

\* The images of the registry whose range holds both the address of the first
\* and the address of the last instruction of the block of curIns.
ImagesOfBlock ==
    {k \in 1..Len(images) : InRange(images[k], curIns.address) /\ InRange(images[k], curIns.tail)}

\* C27: an image contains a block exactly when the addresses of the first and
\* of the last instruction of the block both lie in its inclusive range
\* [start, end]; the registry is searched in the order of insertion and the
\* first image that contains the block decides whether it is interesting,
\* also when several images contain it.
RegistryLookup ==
    curIns.address # -1 =>
        /\ \A k \in 1..Len(images) :
              ContainsBasicBlock(images[k], curIns.address, curIns.tail) <=> k \in ImagesOfBlock
        /\ ImagesOfBlock # {} =>
              curIns.interesting =
                  images[CHOOSE k \in ImagesOfBlock : \A j \in ImagesOfBlock : k <= j].interesting

\* C27 witness: a block of several instructions lies in two images of the
\* registry, behind an image that holds only its first instruction; the
\* first of the two is not interesting, the second is, and the block is not.
RegistryLookupWitness ==
    /\ curIns.address # -1
    /\ curIns.address < curIns.tail
    /\ Len(images) = 3
    /\ InRange(images[1], curIns.address) /\ ~InRange(images[1], curIns.tail)
    /\ ImagesOfBlock = {2, 3}
    /\ ~images[2].interesting /\ images[3].interesting
    /\ ~curIns.interesting

----------------------------------------------------------------------------
\* C28: whenever an insertion hook starts on thread 0 its next-entry pointer
\* satisfies begin <= next < end, so that no entry is stored at or behind end;
\* every insertion moves the pointer forward by one entry, and the pointer
\* changes otherwise only by a reset to begin; no single write to a file is
\* longer than the ENTRY_BUFFER_SIZE entries of the buffer.
BufferPointerBounds ==
    /\ [][nAppends' = nAppends + 1 =>
            /\ Begin(WriterAddr) <= nextReg[0]
            /\ nextReg[0] < End(WriterAddr)
            /\ nextReg[0] + SizeofTraceEntry <= End(WriterAddr)
            /\ nextReg'[0] = nextReg[0] + SizeofTraceEntry]_vars
    /\ [][(started[0] /\ nextReg'[0] # nextReg[0]) =>
            \/ nAppends' = nAppends + 1
            \/ nextReg'[0] = Begin(WriterAddr)]_vars
    /\ [][\A f \in TraceFileNames :
            /\ Len(files'[f]) - Len(files[f]) <= ENTRY_BUFFER_SIZE
            /\ fileBytes'[f] - fileBytes[f] <= ENTRY_BUFFER_SIZE * SizeofTraceEntry]_vars

\* C28 witness: a testcase has filled the buffer, the full buffer was written
\* to its file in one write, and the insertion after the reset has moved the
\* pointer to the second slot.
BufferPointerBoundsWitness ==
    /\ Running(0) /\ pc[0] = "ready"
    /\ phase = "testcase" /\ tcId # -1
    /\ tcFlushes = 1
    /\ Len(tcLog) = ENTRY_BUFFER_SIZE + 1
    /\ Len(files[TestcaseFileName(tcId)]) = ENTRY_BUFFER_SIZE
    /\ nextReg[0] = Begin(WriterAddr) + SizeofTraceEntry

----------------------------------------------------------------------------
\* The depth of the allocation-return tracker after the events evs of the
\* target: -1 at the start; the entry of an allocator sets it to 0; a call
\* increments it when it is not negative; a ret decrements it when it is not
\* negative.
RECURSIVE TrackerDepth(_)
TrackerDepth(evs) ==
    IF evs = << >> THEN -1
    ELSE LET depth == TrackerDepth(SubSeq(evs, 1, Len(evs) - 1))
             e == evs[Len(evs)]
         IN  CASE e.ev = "call" -> IF e.rtn \in Allocators THEN 0
                                   ELSE IF depth >= 0 THEN depth + 1 ELSE depth
               [] e.ev = "jmp" -> IF e.rtn \in Allocators THEN 0 ELSE depth
               [] e.ev = "ret" -> IF depth < 0 THEN depth ELSE depth - 1

\* C29: the allocation-return tracker: its depth starts at -1, an allocator
\* entry sets it to 0 whatever it was, a call increments it only when it is
\* >= 0, a ret does nothing when it is < 0 and otherwise decrements it; a ret
\* emits one HeapAllocAddressReturn with the return value exactly when the
\* decrement takes the depth below 0, and no entry otherwise; the depth is
\* >= -1 in every reachable state.
AllocationTracker ==
    /\ [](TrackerDepth(events) >= -1)
    /\ [][(Len(events') = Len(events) + 1 /\ events'[Len(events')].ev = "ret") =>
            due'[0] = IF TrackerDepth(events) = 0
                      THEN <<RoutineCall("InsertHeapAllocAddressReturnEntry",
                                         events'[Len(events')].value, 0)>>
                      ELSE << >>]_vars

\* The entries thread 0 has emitted since the current instruction began, in
\* the order of their storage.
InsEntries == {e \in EmittedEntries : e.seq > curIns.at}

InsLog ==
    [k \in 1..Cardinality(InsEntries) |-> CHOOSE e \in InsEntries : e.seq = curIns.at + k]

IsBranchOf(e, type) ==
    /\ e.Type = Branch
    /\ e.Flag \in {BitOr(type, BranchTaken), BitOr(type, BranchNotTaken)}
    /\ e.Param1 = curIns.address

IsStackModification(e, flags) ==
    /\ e.Type = StackPointerModification
    /\ e.Flag = flags
    /\ e.Param1 = curIns.address

\* The entries of an executed call or ret: the branch entry, then the stack
\* pointer modification entry.
BranchThenStack(type, flags) ==
    /\ Len(InsLog) = 2
    /\ IsBranchOf(InsLog[1], type)
    /\ IsStackModification(InsLog[2], flags)

\* The entries of another instruction that writes the stack pointer: its
\* memory entries, then the stack pointer modification entry.
MemoryThenStack ==
    /\ Len(InsLog) >= 1
    /\ IsStackModification(InsLog[Len(InsLog)], StackIsOther)
    /\ \A k \in 1..(Len(InsLog) - 1) : InsLog[k].Type \in {MemoryRead, MemoryWrite}

NoStackEntryWithoutTracking ==
    ~enableStackAllocationTracking
        => \A e \in EmittedEntries : e.Type # StackPointerModification

\* C30 as stated: with -s 1 every executed call appends Branch(call) then
\* StackPointerModification(1), every executed ret Branch(ret) then
\* StackPointerModification(2), and in interesting images every other
\* instruction that writes the full stack pointer appends, after its memory
\* entries, StackPointerModification(3); with -s 0 no such entry is emitted.
StackTrackingOfEveryInstruction ==
    /\ (InstructionDone /\ enableStackAllocationTracking) =>
          LET ins == InsAt(curIns.address) IN
              /\ ins.IsCall => BranchThenStack(BranchTypeCall, StackIsCall)
              /\ ins.IsRet => BranchThenStack(BranchTypeReturn, StackIsReturn)
              /\ (curIns.interesting /\ ~ins.IsCall /\ ~ins.IsRet /\ ins.FullRegWContainRSP)
                    => MemoryThenStack
    /\ NoStackEntryWithoutTracking

\* C30: with -s 1 every executed call that the skip rules let through (no
\* segment prefix) appends Branch(call) then StackPointerModification(1),
\* every such ret Branch(ret) then StackPointerModification(2), and in
\* interesting images every other instruction that writes the full stack
\* pointer and is not in the skip set (segment prefix, push and pop family,
\* lea) appends, after its memory entries, StackPointerModification(3); an
\* instruction of the skip set appends nothing; with -s 0 no
\* StackPointerModification entry is emitted.
StackTracking ==
    /\ (InstructionDone /\ enableStackAllocationTracking) =>
          LET ins == InsAt(curIns.address) IN
              /\ (ins.IsCall /\ ~InSkipSet(ins))
                    => BranchThenStack(BranchTypeCall, StackIsCall)
              /\ (ins.IsRet /\ ~InSkipSet(ins))
                    => BranchThenStack(BranchTypeReturn, StackIsReturn)
              /\ (curIns.interesting /\ ~ins.IsCall /\ ~ins.IsRet /\ ins.FullRegWContainRSP
                    /\ ~InSkipSet(ins))
                    => MemoryThenStack
              /\ InSkipSet(ins) => InsLog = << >>
    /\ NoStackEntryWithoutTracking

\* An instruction of an interesting image that reads memory and writes the
\* stack pointer has run with -s 1: a memory read entry, then the entry with
\* flag 3.
StackTrackingWitness ==
    /\ InstructionDone
    /\ enableStackAllocationTracking
    /\ curIns.interesting
    /\ InsAt(curIns.address).Opcode = "LEAVE"
    /\ Len(InsLog) = 2
    /\ InsLog[1].Type = MemoryRead
    /\ IsStackModification(InsLog[2], StackIsOther)

----------------------------------------------------------------------------
\* Seven primes below 2^15; their product exceeds 2^96.
Moduli == {32687, 32693, 32707, 32713, 32717, 32719, 32749}

\* The UINT64 with the bytes w (least significant first), modulo m.
Residue(w, m) ==
    (w[1] + 256 * ((w[2] + 256 * ((w[3] + 256 * ((w[4] + 256 * ((w[5] + 256 * ((w[6]
        + 256 * ((w[7] + 256 * (w[8] % m)) % m)) % m)) % m)) % m)) % m)) % m)) % m

\* 2^64 modulo m, by squaring 2^16 twice.
TwoTo64Mod(m) ==
    LET a == 65536 % m
        b == (a * a) % m
    IN  (b * b) % m

\* p = n * s mod 2^64 for UINT64 n and s, with s and p below 2^31: n * s is
\* p + q * 2^64 for a quotient q <= s, and two numbers below the product of
\* the moduli are equal when they are congruent modulo each of them.
IsProductMod64(p, n, s) ==
    \E q \in 0..FromUINT64(s) :
        \A m \in Moduli :
            (Residue(n, m) * Residue(s, m)) % m = ((p % m) + q * TwoTo64Mod(m)) % m

\* C31: the entry stored at the entry of calloc(n, s) is a
\* HeapAllocSizeParameter with param1 = n * s mod 2^64; at the entry of
\* malloc(size) its param1 is the first argument, at the entry of
\* realloc(p, size) the second argument; the HeapFreeAddressParameter stored
\* at the entry of free carries the first argument of free in param2.
HeapParameters ==
    [][(RunRoutineCall /\ nAppends' = nAppends + 1
            /\ events[Len(events)].ev \in {"call", "jmp"}) =>
          LET last == events[Len(events)]
              e == StoredEntry
          IN  /\ last.rtn = "malloc" =>
                    e.Type = HeapAllocSizeParameter /\ e.Param1 = last.args[1]
              /\ last.rtn = "realloc" =>
                    e.Type = HeapAllocSizeParameter /\ e.Param1 = last.args[2]
              /\ last.rtn = "calloc" =>
                    /\ e.Type = HeapAllocSizeParameter
                    /\ IsProductMod64(e.Param1, last.args[1], last.args[2])
              /\ last.rtn = "free" =>
                    e.Type = HeapFreeAddressParameter /\ e.Param2 = last.args[1]]_vars

\* C31 witness: the target has called calloc(2^63 + 129, 2), whose product
\* overflows 64 bits, and the entry stored at the entry of calloc carries
\* 258 = (2^64 + 258) mod 2^64.
HeapParametersWitness ==
    \E i \in 1..Len(events) :
        /\ events[i].ev = "call"
        /\ events[i].rtn = "calloc"
        /\ events[i].args = <<<<129, 0, 0, 0, 0, 0, 0, 128>>, <<2, 0, 0, 0, 0, 0, 0, 0>>>>
        /\ \E e \in EmittedEntries :
              /\ e.seq = events[i].at + 1
              /\ e.Type = HeapAllocSizeParameter
              /\ e.Param1 = 258

----------------------------------------------------------------------------
\* The harness has called PinNotifyStackPointer.
StackPointerSent == harness.kind # "none" /\ harness.pc # "main"

\* stackMax - stackBase, when it lies in 1..0x10000: stackMax is above the
\* stack pointer and at most 64 kB above it.
AboveWithin64kB(stackBase, stackMax) ==
    LET d == Sub64(stackMax, stackBase) IN
        /\ \A i \in 4..8 : d[i] = 0
        /\ d[3] * 65536 + d[2] * 256 + d[1] \in 1..65536

\* C32: the stack bounds of both harness programs: stackMax is a multiple of
\* 0x10000 with stackBase < stackMax <= stackBase + 0x10000, and stackMin is
\* stackBase minus the stack size limit, for every stack pointer.
StackBoundsRounded ==
    StackPointerSent =>
        /\ harness.stackMax[1] = 0 /\ harness.stackMax[2] = 0
        /\ AboveWithin64kB(harness.stackBase, harness.stackMax)
        /\ Add64(harness.stackMin, harness.rlim_cur) = harness.stackBase

----------------------------------------------------------------------------
\* The positions of the calls of the harness with one of the names.
PositionsOf(names) == {k \in 1..Len(harness.calls) : harness.calls[k].fn \in names}

\* C33: the harness calls the initialization routine of the target at most
\* once, and before the first PinNotifyTestcaseStart: at startup in
\* PinTracerWrapper.cpp, with the first testcase whose file opens in the
\* template.  A harness that has called a marker has called the routine.
InitTargetOnce ==
    /\ Cardinality(PositionsOf({"InitTarget"})) <= 1
    /\ \A i \in PositionsOf({"InitTarget"}), k \in PositionsOf({"PinNotifyTestcaseStart"}) : i < k
    /\ PositionsOf({"PinNotifyTestcaseStart"}) # {} => PositionsOf({"InitTarget"}) # {}
    /\ (harness.kind = "PinTracerWrapper" /\ harness.pc \notin {"none", "main"})
          => harness.calls[2].fn = "InitTarget"

\* C33 witness: the template has reported the file of its first testcase as
\* missing without initializing the target, has initialized it with the file
\* of the second testcase, and has started two testcases since.
InitTargetOnceWitness ==
    /\ harness.kind = "template"
    /\ Len(harness.errors) = 1
    /\ harness.script[1].file \notin ExistingFiles
    /\ Cardinality(PositionsOf({"InitTarget"})) = 1
    /\ \E i \in PositionsOf({"InitTarget"}) : harness.calls[i].file = harness.script[2].file
    /\ Cardinality(PositionsOf({"PinNotifyTestcaseStart"})) = 2

----------------------------------------------------------------------------
\* The state of the writer: Prefix, Testcase(id) or Idle.
WriterStates ==
    {s \in {"Prefix", "Testcase", "Idle"} :
        \/ s = "Prefix" /\ prefixMode
        \/ s = "Testcase" /\ ~prefixMode /\ testcaseId # -1
        \/ s = "Idle" /\ ~prefixMode /\ testcaseId = -1}

\* C34: prefix mode implies testcase id -1; prefix mode is on from the start
\* until the first TestcaseStart or TestcaseEnd on thread 0, which ends it,
\* and is never set again; the writer is in exactly one of the states Prefix,
\* Testcase(id) and Idle.
PrefixModeMonotone ==
    /\ [](prefixMode => testcaseId = -1)
    /\ [](Cardinality(WriterStates) = 1)
    /\ []((phase = "prefix" /\ status = "running") => prefixMode)
    /\ [](phase # "prefix" => ~prefixMode)
    /\ [][~prefixMode => ~prefixMode']_vars
    /\ [][(prefixMode /\ ~prefixMode') => (HookTestcaseStart(0) \/ HookTestcaseEnd(0))]_vars

\* C34 witness: a TestcaseEnd has ended prefix mode before any TestcaseStart,
\* an entry has been appended in the Idle state, and a TestcaseStart has
\* begun a testcase.
PrefixModeMonotoneWitness ==
    /\ ~prefixMode
    /\ testcaseId # -1
    /\ phase = "testcase"
    /\ firstStartAt # -1
    /\ nEnded = 0
    /\ idleSeqs # {}

----------------------------------------------------------------------------
\* The writer of thread 0 is in the state Testcase(id).
ActiveTestcase == ~prefixMode /\ testcaseId # -1

\* C35: whichever marker or thread exit ends the state Testcase(i), a second
\* TestcaseStart included, the file t{i}.trace then holds every entry appended
\* in that state, and a TestcaseStart in that state raises no error.
TestcaseEntriesKept ==
    /\ [][(ActiveTestcase /\ status = "running" /\ phase = "testcase"
             /\ (HookTestcaseStart(0) \/ HookTestcaseEnd(0) \/ ThreadFini(0)))
            => files'[TestcaseFileName(testcaseId)] = tcLog]_vars
    /\ [][(ActiveTestcase /\ HookTestcaseStart(0)) => status' = "running"]_vars

----------------------------------------------------------------------------
\* C36: after TestcaseStart(id), for every id the harness can pass, -1
\* included, the writer is in an active testcase state: the entries appended
\* since are written to t{id}.trace, at the latest by the TestcaseEnd.
StartWithAnyId ==
    /\ []((phase = "testcase" /\ status = "running") => (~prefixMode /\ testcaseId # -1))
    /\ [][(HookTestcaseEnd(0) /\ phase = "testcase" /\ status = "running" /\ status' = "running")
            => files'[TestcaseFileName(tcId)] = tcLog]_vars

----------------------------------------------------------------------------
\* C37: a TestcaseEnd in the Idle state (prefix mode over, no testcase
\* active) emits no notification line, writes to no file, raises no error and
\* leaves the writer Idle.
IdleTestcaseEnd ==
    [][(HookTestcaseEnd(0) /\ phase = "idle" /\ ~prefixMode /\ testcaseId = -1)
          => /\ status' = "running"
             /\ stdout' = stdout
             /\ files' = files
             /\ ~prefixMode' /\ testcaseId' = -1]_vars

----------------------------------------------------------------------------
\* C38: when thread 0 exits in the Idle state, after the last TestcaseEnd,
\* ThreadFini and the destruction of the writer write to no file, emit no
\* notification line and raise no error: the process goes on to its normal
\* exit.
NormalShutdown ==
    [][(ThreadFini(0) /\ phase = "idle" /\ nEnded >= 1 /\ ~prefixMode /\ testcaseId = -1)
          => /\ status' = "running"
             /\ files' = files
             /\ stdout' = stdout]_vars

----------------------------------------------------------------------------
\* C39: when stdin reaches its end without an "e" command the harness starts
\* no further testcase: from the read at the end of the input on it does not
\* enter the testcase branch and makes no call, and it eventually terminates.
EndOfInput ==
    /\ <>(harness.pc = "exited")
    /\ [][(ReadCommand /\ harness.stdin = << >>) => harness'.pc \in {"loop", "return"}]_vars
    /\ [][(harness.stdin = << >> /\ harness.pc \in {"loop", "return"})
             => harness'.calls = harness.calls]_vars

----------------------------------------------------------------------------
\* C40: in fuzzing mode the wrapper tries to open the pipe at most 7 times
\* (one attempt and 6 retries, a wait before each retry); when all 7 fail it
\* appends one error line and returns -1 without calling the fuzz target;
\* when an attempt succeeds it makes no further attempt and calls the fuzz
\* target exactly once; in the other modes it never tries to open the pipe.
PipeAttempts == Len(CallsOf({"CreateFileA"}))

FuzzCalls == Len(CallsOf({"Fuzz"}))

PipeRetryLimit ==
    harness.kind = "FuzzingWrapper" =>
        /\ PipeAttempts <= 7
        /\ Len(CallsOf({"Sleep"})) \in {PipeAttempts - 1, PipeAttempts}
        /\ Len(CallsOf({"Sleep"})) <= 6
        /\ FuzzCalls <= 1
        /\ harness.mode # 1 => PipeAttempts = 0
        /\ (harness.mode = 1 /\ harness.pipeDelay < 7 /\ harness.pc \in {"fuzz", "cleanup", "exited"}) =>
              PipeAttempts = harness.pipeDelay + 1
        /\ (harness.pc = "exited" /\ (harness.mode # 1 \/ harness.pipeDelay < 7)) =>
              /\ FuzzCalls = 1
              /\ harness.errors = << >>
              /\ harness.exitCode = 0
        /\ (harness.pc = "exited" /\ harness.mode = 1 /\ harness.pipeDelay >= 7) =>
              /\ PipeAttempts = 7
              /\ FuzzCalls = 0
              /\ Len(harness.errors) = 1
              /\ harness.exitCode = -1

\* C40 witness: the seventh attempt has failed, the error line is written and
\* main has returned -1; no call of the fuzz target.
PipeRetryLimitWitness ==
    /\ harness.kind = "FuzzingWrapper"
    /\ harness.pc = "exited"
    /\ harness.exitCode = -1
    /\ PipeAttempts = 7
    /\ Len(harness.errors) = 1
    /\ FuzzCalls = 0


====
